---- MODULE Spec2Model ----
(***************************************************************************)
(* Smart Oil Gauge integration: the session client (api.py) and the        *)
(* polling coordinator (__init__.py).                                      *)
(*                                                                         *)
(* One refresh of the coordinator is the coroutine _async_update_data; it  *)
(* suspends at every network exchange of the client.  pc is the exchange   *)
(* the coroutine is waiting on and inflight is the outcome the transport   *)
(* has delivered for it (NoResp while the request is still pending).       *)
(***************************************************************************)
EXTENDS Integers, Sequences, FiniteSets, TLC

\* Bounds of the model.
MaxTanks == 2
MaxNonce == 1

----------------------------------------------------------------------------
\* JSON values the data endpoint can send, and the cached snapshot.

\* Two tanks are enough for a response to list different tanks, the same
\* tank twice, or the same tanks in another order.
TankIds == {1, 2}

TankRecords == [tank_id : TankIds]

RECURSIVE SeqsUpTo(_, _)
SeqsUpTo(S, n) ==
    IF n = 0 THEN {<<>>}
    ELSE LET shorter == SeqsUpTo(S, n - 1)
         IN  shorter \cup {Append(s, x) : s \in {q \in shorter : Len(q) = n - 1}, x \in S}

TankLists == SeqsUpTo(TankRecords, MaxTanks)

StatusValues == {200, 401, 403}

\* A result field whose value is JSON null decodes to Python's None.
JsonNull == "<null>"

ResultValues == {"ok", "OK", "Ok", "error", JsonNull}

\* A parsed JSON body.  kind "dict" is a mapping whose present keys are
\* listed in keys (a field that is absent holds its default); kind "list"
\* is a JSON value that is not a mapping; kind "none" is Python's None;
\* kind "invalid" is a body that resp.json() cannot decode.
JsonValue(kind, keys, status, result, tanks) ==
    [kind |-> kind, keys |-> keys, Status |-> status, result |-> result, tanks |-> tanks]

None == JsonValue("none", {}, 0, "", <<>>)

JsonList == JsonValue("list", {}, 0, "", <<>>)

JsonInvalid == JsonValue("invalid", {}, 0, "", <<>>)

JsonDicts ==
    { JsonValue("dict", ks,
                IF "Status" \in ks THEN s ELSE 0,
                IF "result" \in ks THEN r ELSE "",
                IF "tanks" \in ks THEN t ELSE <<>>) :
        ks \in SUBSET {"Status", "result", "tanks"},
        s \in StatusValues, r \in ResultValues, t \in TankLists }

\* None is also what a body of JSON null decodes to.
JsonValues == JsonDicts \cup {JsonList, None}

\* dict.get(key): the value, or the default when the key is absent.
HasKey(d, key) == d.kind = "dict" /\ key \in d.keys

\* str(result).lower()
Lower(s) == CASE s = "OK" -> "ok"
              [] s = "Ok" -> "ok"
              [] s = "ERROR" -> "error"
              [] s = "Excellent" -> "excellent"
              [] OTHER -> s

----------------------------------------------------------------------------
\* Outcomes of one HTTP exchange as the client sees them.

Markers == {"ccf_nonce", "user_pass", "Login", "Smart Oil Gauge"}

Nonces == {"n" \o ToString(i) : i \in 1..MaxNonce}

NoNonce == "None"

TransportExcs == {"timeout", "client_error", "other"}

\* sendExc: raised by session.get/post before a response exists;
\* readExc: raised by resp.text(); json: what resp.json() gives
\* (JsonInvalid when it raises).  Parts the client never reads hold defaults.
Exchange(sendExc, status, ctypeJson, readExc, markers, nonce, json) ==
    [sendExc |-> sendExc, status |-> status, ctypeJson |-> ctypeJson,
     readExc |-> readExc, markers |-> markers, nonce |-> nonce, json |-> json]

NoResp == Exchange("pending", 0, FALSE, "none", {}, NoNonce, None)

SendFailures == { Exchange(e, 0, FALSE, "none", {}, NoNonce, None) : e \in TransportExcs }

HttpStatuses == {200, 400, 401, 403, 404, 500}

Bodies == SUBSET Markers

\* What the transport can deliver for the POST to AJAX_URL.
AjaxResponses ==
    SendFailures
    \cup { Exchange("none", st, FALSE, "none", {}, NoNonce, None) :
             st \in {h \in HttpStatuses : h >= 400} }
    \cup { Exchange("none", st, FALSE, "none", {"user_pass", "Login"}, NoNonce, None) :
             st \in {404, 500} }
    \cup { Exchange("none", st, TRUE, "none", {}, NoNonce,
                     JsonValue("dict", {"tanks"}, 0, "", <<>>)) :
             st \in {403, 404} }
    \cup { Exchange("none", 200, FALSE, e, {}, NoNonce, None) : e \in TransportExcs }
    \cup { Exchange("none", 200, FALSE, "none", b, NoNonce, None) : b \in Bodies }
    \cup { Exchange("none", 200, TRUE, "none", {}, NoNonce, j) :
             j \in JsonValues \cup {JsonInvalid} }

\* What the transport can deliver for the GET of LOGIN_URL.
LoginPageResponses ==
    SendFailures
    \cup { Exchange("none", 200, FALSE, e, {}, NoNonce, None) : e \in TransportExcs }
    \cup { Exchange("none", 200, FALSE, "none", {"ccf_nonce", "user_pass", "Login"}, n, None) :
             n \in Nonces }
    \cup { Exchange("none", 200, FALSE, "none", b, NoNonce, None) :
             b \in {{}, {"user_pass", "Login"}} }

\* What the transport can deliver for the POST of the login form.
LoginPostResponses ==
    SendFailures
    \cup { Exchange("none", st, FALSE, "none", {}, NoNonce, None) :
             st \in {h \in HttpStatuses : h >= 500 \/ h \in {401, 403}} }
    \cup { Exchange("none", st, FALSE, "none", {"user_pass", "Login"}, NoNonce, None) :
             st \in {401, 500} }
    \cup { Exchange("none", st, FALSE, e, {}, NoNonce, None) :
             st \in {200, 400, 404}, e \in TransportExcs }
    \cup { Exchange("none", st, FALSE, "none", b, NoNonce, None) :
             st \in {200, 400, 404}, b \in Bodies }

----------------------------------------------------------------------------
\* The session client (api.py).

\* What a client call gives its caller: res is "ok" or the class of the
\* exception raised ("Other": an exception that is neither AuthError nor
\* ApiError); cause is the transport exception it was raised from.
Result(res, cause, data, nonce) ==
    [res |-> res, cause |-> cause, data |-> data, nonce |-> nonce]

Raise(res, cause) == Result(res, cause, None, NoNonce)

\* TransportError with the timeout clause raising AuthError.
TransportError_TimeoutAsAuth(exc) ==
    CASE exc = "timeout" -> Raise("AuthError", "timeout")
      [] exc = "client_error" -> Raise("ApiError", "client_error")
      [] OTHER -> Raise("Other", exc)

\* The except clauses that follow each exchange: asyncio.TimeoutError and
\* aiohttp.ClientError become ApiError, anything else propagates.
TransportError(exc) ==
    CASE exc = "timeout" -> Raise("ApiError", "timeout")
      [] exc = "client_error" -> Raise("ApiError", "client_error")
      [] OTHER -> Raise("Other", exc)

_fetch_nonce(t) ==
    IF t.sendExc # "none" THEN TransportError(t.sendExc)
    ELSE IF t.readExc # "none" THEN TransportError(t.readExc)
    ELSE Result("ok", "none", None, t.nonce)

\* LoginPageAfterPost without the test for the password field.
LoginPageAfterPost_NoPassField(body) ==
    "Login" \in body /\ "Smart Oil Gauge" \in body

\* login()'s heuristic on the body of the POST response: the login form is
\* still there, or a generic login page came back.
LoginPageAfterPost(body) ==
    \/ "user_pass" \in body
    \/ "Login" \in body /\ "Smart Oil Gauge" \in body

\* login_post with the body inspected before the HTTP status.
login_post_BodyFirst(t) ==
    IF t.sendExc # "none" THEN TransportError(t.sendExc)
    ELSE IF t.readExc # "none" THEN TransportError(t.readExc)
    ELSE IF LoginPageAfterPost(t.markers) THEN Raise("AuthError", "none")
    ELSE IF t.status >= 500 THEN Raise("ApiError", "none")
    ELSE IF t.status \in {401, 403} THEN Raise("AuthError", "none")
    ELSE Result("ok", "none", None, NoNonce)

\* The part of login() from the POST on.
login_post(t) ==
    IF t.sendExc # "none" THEN TransportError(t.sendExc)
    ELSE IF t.status >= 500 THEN Raise("ApiError", "none")
    ELSE IF t.status \in {401, 403} THEN Raise("AuthError", "none")
    ELSE IF t.readExc # "none" THEN TransportError(t.readExc)
    ELSE IF LoginPageAfterPost(t.markers) THEN Raise("AuthError", "none")
    ELSE Result("ok", "none", None, NoNonce)

\* login() as one call: the GET of the login page, then the POST.
login(tget, tpost) ==
    LET page == _fetch_nonce(tget)
    IN  IF page.res # "ok" THEN page ELSE login_post(tpost)

\* check_body returning only the tanks entry of a mapping.
check_body_TanksOnly(data) ==
    IF data.kind = "dict" /\ HasKey(data, "Status") /\ data.Status \in {401, 403}
    THEN Raise("AuthError", "none")
    ELSE IF data.kind = "dict" /\ HasKey(data, "result") /\ data.result # JsonNull
            /\ Lower(data.result) # "ok"
    THEN Raise("ApiError", "none")
    ELSE Result("ok", "none",
                IF data.kind = "dict"
                THEN JsonValue("dict", data.keys \cap {"tanks"}, 0, "", data.tanks)
                ELSE data,
                NoNonce)

\* check_body with the result check made before the Status check.
check_body_ResultFirst(data) ==
    IF data.kind = "dict" /\ HasKey(data, "result") /\ data.result # JsonNull
       /\ Lower(data.result) # "ok"
    THEN Raise("ApiError", "none")
    ELSE IF data.kind = "dict" /\ HasKey(data, "Status") /\ data.Status \in {401, 403}
    THEN Raise("AuthError", "none")
    ELSE Result("ok", "none", data, NoNonce)

\* check_body comparing result with "ok" as it is written.
check_body_CaseSensitive(data) ==
    IF data.kind = "dict" /\ HasKey(data, "Status") /\ data.Status \in {401, 403}
    THEN Raise("AuthError", "none")
    ELSE IF data.kind = "dict" /\ HasKey(data, "result") /\ data.result # JsonNull
            /\ data.result # "ok"
    THEN Raise("ApiError", "none")
    ELSE Result("ok", "none", data, NoNonce)

\* The checks of get_tanks_list() on the decoded body.
check_body(data) ==
    IF data.kind = "dict" /\ HasKey(data, "Status") /\ data.Status \in {401, 403}
    THEN Raise("AuthError", "none")
    ELSE IF data.kind = "dict" /\ HasKey(data, "result") /\ data.result # JsonNull
            /\ Lower(data.result) # "ok"
    THEN Raise("ApiError", "none")
    ELSE Result("ok", "none", data, NoNonce)

\* LoginPageInsteadOfJson without the test for the password field.
LoginPageInsteadOfJson_NoPassField(body) ==
    "ccf_nonce" \in body \/ "Login" \in body

\* LoginPageInsteadOfJson with the two tests login() makes.
LoginPageInsteadOfJson_AsLogin(body) ==
    \/ "user_pass" \in body
    \/ "Login" \in body /\ "Smart Oil Gauge" \in body

\* get_tanks_list()'s heuristic on a body that is not JSON.
LoginPageInsteadOfJson(body) ==
    "ccf_nonce" \in body \/ "user_pass" \in body \/ "Login" \in body

\* get_tanks_list with the test for HTTP errors made before that for 401/403.
get_tanks_list_ErrorsFirst(t) ==
    IF t.sendExc # "none" THEN TransportError(t.sendExc)
    ELSE IF t.status >= 400 THEN Raise("ApiError", "none")
    ELSE IF t.status \in {401, 403} THEN Raise("AuthError", "none")
    ELSE IF t.readExc # "none" THEN TransportError(t.readExc)
    ELSE IF ~t.ctypeJson
         THEN IF LoginPageInsteadOfJson(t.markers)
              THEN Raise("AuthError", "none")
              ELSE Raise("ApiError", "none")
    ELSE IF t.json = JsonInvalid THEN Raise("ApiError", "none")
    ELSE check_body(t.json)

get_tanks_list(t) ==
    IF t.sendExc # "none" THEN TransportError(t.sendExc)
    ELSE IF t.status \in {401, 403} THEN Raise("AuthError", "none")
    ELSE IF t.status >= 400 THEN Raise("ApiError", "none")
    ELSE IF t.readExc # "none" THEN TransportError(t.readExc)
    ELSE IF ~t.ctypeJson
         THEN IF LoginPageInsteadOfJson(t.markers)
              THEN Raise("AuthError", "none")
              ELSE Raise("ApiError", "none")
    ELSE IF t.json = JsonInvalid THEN Raise("ApiError", "none")
    ELSE check_body(t.json)

\* The requests the client sends.  A request is its method, its URL and its
\* form: the set of <<field, value>> pairs of the body.

USER_FIELD == "username"

PASS_FIELD == "user_pass"

Request(method, url, form) == [method |-> method, url |-> url, form |-> form]

\* The form login() posts, with the nonce field left out.
LoginForm_NoNonce(username, password, n) ==
    {<<USER_FIELD, username>>, <<PASS_FIELD, password>>}

\* The form login() posts: the two credential fields, and the nonce when
\* _fetch_nonce() found one.
LoginForm(username, password, n) ==
    {<<USER_FIELD, username>>, <<PASS_FIELD, password>>}
    \cup (IF n # NoNonce THEN {<<"ccf_nonce", n>>} ELSE {})

\* get_tanks_list() sending its request a second time.
SendAjax_Twice(sent) ==
    sent \o << Request("POST", "AJAX_URL", {<<"action", "get_tanks_list">>, <<"tank_id", "0">>}),
              Request("POST", "AJAX_URL", {<<"action", "get_tanks_list">>, <<"tank_id", "0">>}) >>

\* get_tanks_list(): its one session.post to AJAX_URL.
SendAjax(sent) ==
    Append(sent, Request("POST", "AJAX_URL",
                         {<<"action", "get_tanks_list">>, <<"tank_id", "0">>}))

\* _fetch_nonce(): its one session.get of LOGIN_URL.
SendLoginGet(sent) == Append(sent, Request("GET", "LOGIN_URL", {}))

\* login(): its one session.post to LOGIN_URL.
SendLoginPost(sent, username, password, n) ==
    Append(sent, Request("POST", "LOGIN_URL", LoginForm(username, password, n)))

----------------------------------------------------------------------------
\* The polling coordinator (__init__.py).

VARIABLES
    pc,          \* exchange _async_update_data is suspended on, or "idle"
    inflight,    \* outcome delivered for the exchange (NoResp: pending);
                 \* once the refresh has ended, that of its last exchange
    data,        \* coordinator.data, the cached snapshot
    coordState,  \* "NoData", "Ready" or "NeedsReauth"
    outcome,     \* how the last refresh ended ("none" before the first,
                 \* "running" during one)
    nonce,       \* login()'s local nonce between its GET and its POST
    nLogin,      \* login() calls of the current refresh
    nFetch,      \* get_tanks_list() calls of the current refresh
    r1,          \* result of the first get_tanks_list() of the refresh
    rl,          \* result of the login() of the refresh
    r2,          \* result of the retried get_tanks_list() of the refresh
    dataBefore,  \* coordinator.data when the refresh started
    stateBefore, \* coordState when the refresh started
    lastGood,    \* body of the response of the last refresh that returned
    requests     \* the requests the current client call, or the last one, has sent

coordVars == <<pc, inflight, data, coordState, outcome, nonce, nLogin, nFetch, r1, rl, r2,
               dataBefore, stateBefore, lastGood, requests>>

\* self._username and self._password of the coordinator.
CoordUsername == "alice"

CoordPassword == "secret"

\* Home Assistant with its config entries (async_setup_entry,
\* async_unload_entry), each with a client and a coordinator of its own.
VARIABLES
    jar,          \* per HTTP session: the account its cookies authenticate
    setupState,   \* per entry: "not_loaded", "setting_up", "loaded", or the
                  \* exception async_setup_entry raised
    hpc,          \* per entry: the call its coordinator's refresh is in
    hdata,        \* per entry: its coordinator's data
    firstOutcome, \* per entry: how its coordinator's first refresh ended
    registry,     \* entry ids in hass.data[DOMAIN]
    forwarded,    \* entries whose platforms have been set up
    healthy,      \* the upstream answers every request from now on
    fresh         \* per entry: a refresh returned since the upstream is healthy

hassVars == <<jar, setupState, hpc, hdata, firstOutcome, registry, forwarded,
              healthy, fresh>>

\* The platforms of one entry (sensor.py, binary_sensor.py) and the entities
\* they create on its coordinator.
VARIABLES
    cdata,          \* coordinator.data as the platforms see it
    response,       \* the body the last refresh of this coordinator returned
    updateOutcome,  \* how the last refresh ended
    repeated,       \* the last refresh returned the body already published
    loaded,         \* the platforms' async_setup_entry has run
    sensor_created, \* created_tank_ids of sensor.py
    binary_created, \* created_tank_ids of binary_sensor.py
    entities,       \* the entities given to async_add_entities so far
    added,          \* the entities given to async_add_entities by the last step
    reading,        \* the last property read of an entity, and its value
    built           \* per platform and tank id: the calls of build_entities_for_tank

platVars == <<cdata, response, updateOutcome, repeated, loaded, sensor_created, binary_created,
              entities, added, reading, built>>

\* The config flow's user step (config_flow.py) and the config entries.
VARIABLES
    configured,   \* per username: the number of config entries with it
    flowResult,   \* what the last user step returned
    flowCalls,    \* the client calls the last user step made, in order
    flowResults   \* what those calls gave

flowVars == <<configured, flowResult, flowCalls, flowResults>>

\* One config entry over its life: its data and options, and the
\* coordinator async_setup_entry makes for it.
VARIABLES
    entryState,     \* "no_entry", "not_loaded", "loaded" or "setup_failed"
    entryData,      \* entry.data
    entryOptions,   \* entry.options: {} or {scan interval}
    coordinator,    \* hass.data[DOMAIN].get(entry.entry_id)
    listener,       \* async_reload_entry is registered as update listener
    pendingReload,  \* the update listener has been called, the reload is to come
    loginWith,      \* {} or the last login() call: its credentials and the
                    \* coordinator that made it
    nCreated,       \* coordinators made so far
    unloadReturn    \* what the last async_unload_entry returned

lifeVars == <<entryState, entryData, entryOptions, coordinator, listener, pendingReload,
              loginWith, nCreated, unloadReturn>>

vars == <<coordVars, hassVars, platVars, flowVars, lifeVars>>

\* What the refresh remembers of a client call.
Log(r) == [res |-> r.res, cause |-> r.cause]

NotCalled == [res |-> "not_called", cause |-> "none"]

Outcomes == {"returned", "UpdateFailed", "ConfigEntryAuthFailed"}

\* OuterHandler with ApiError handled by the re-login clause too.
OuterHandler_ApiRelogin(res) ==
    CASE res = "ok" -> "returned"
      [] res \in {"AuthError", "ApiError"} -> "login"
      [] OTHER -> "UpdateFailed"

\* OuterHandler without the re-login clause.
OuterHandler_NoRelogin(res) ==
    CASE res = "ok" -> "returned"
      [] OTHER -> "UpdateFailed"

\* OuterHandler without the final except Exception clause.
OuterHandler_NoCatchAll(res) ==
    CASE res = "ok" -> "returned"
      [] res = "AuthError" -> "login"
      [] res = "ApiError" -> "UpdateFailed"
      [] OTHER -> res

\* The except clauses of the outer try, applied to the first
\* get_tanks_list(): the next thing _async_update_data does.
OuterHandler(res) ==
    CASE res = "ok" -> "returned"
      [] res = "AuthError" -> "login"
      [] res = "ApiError" -> "UpdateFailed"
      [] OTHER -> "UpdateFailed"

\* InnerHandler without the except AuthError clause.
InnerHandler_NoAuthClause(res) == "UpdateFailed"

\* The except clauses of the inner try, applied to an exception raised by
\* login() or by the retried get_tanks_list().
InnerHandler(res) ==
    CASE res = "AuthError" -> "ConfigEntryAuthFailed"
      [] OTHER -> "UpdateFailed"

\* The inner try after login() has come back.
AfterLogin(res) ==
    IF res = "ok" THEN "fetch2" ELSE InnerHandler(res)

\* AfterRetry logging in again when the retry is rejected.
AfterRetry_Loop(res) ==
    IF res = "ok" THEN "returned"
    ELSE IF res = "AuthError" THEN "login" ELSE "UpdateFailed"

\* The inner try after the retried get_tanks_list() has come back.
AfterRetry(res) ==
    IF res = "ok" THEN "returned" ELSE InnerHandler(res)

\* RetryReturn with the retry awaited but its value not returned.
RetryReturn_Missing(r) == None

\* The value _async_update_data returns on the retry path.
RetryReturn(r) == r.data

\* PublishedData with the snapshot cleared by a failed refresh.
PublishedData_ClearOnFailure(out, value, old) ==
    IF out = "returned" THEN value ELSE None

\* coordinator.data after a refresh that ended with out: a returned value
\* replaces it, a raised exception leaves it.
PublishedData(out, value, old) ==
    IF out = "returned" THEN value ELSE old

\* The coordinator's state after a refresh that ended with out.
NextState(out, old) ==
    CASE out = "returned" -> "Ready"
      [] out = "ConfigEntryAuthFailed" -> "NeedsReauth"
      [] OTHER -> old

\* _async_update_data goes on to `next`: it calls login() or
\* get_tanks_list() again, which sends the request of the next exchange, or
\* it ends the refresh by returning or by raising `next`.
Advance(next, value) ==
    IF next \in {"login", "fetch2"}
    THEN /\ pc' = IF next = "login" THEN "login_get" ELSE next
         /\ inflight' = NoResp
         /\ nLogin' = IF next = "login" THEN nLogin + 1 ELSE nLogin
         /\ nFetch' = IF next = "fetch2" THEN nFetch + 1 ELSE nFetch
         /\ requests' = IF next = "login" THEN SendLoginGet(<<>>) ELSE SendAjax(<<>>)
         /\ UNCHANGED <<outcome, data, coordState, lastGood>>
    ELSE /\ pc' = "idle"
         /\ outcome' = next
         /\ data' = PublishedData(next, value, data)
         /\ coordState' = NextState(next, coordState)
         /\ lastGood' = IF next = "returned" THEN inflight.json ELSE lastGood
         /\ UNCHANGED <<inflight, nLogin, nFetch, requests>>

Entries == {"e1", "e2"}

\* entry.data[CONF_USERNAME]: the two entries are for two accounts.
Username(e) == IF e = "e1" THEN "alice" ELSE "bob"

Accounts == {Username(e) : e \in Entries}

\* async_get_clientsession(hass): Home Assistant's shared session, the same
\* object for every entry.
SessionOf(e) == "hass"

Sessions == {SessionOf(e) : e \in Entries}

HassInit ==
    /\ jar = [s \in Sessions |-> "anon"]
    /\ setupState = [e \in Entries |-> "not_loaded"]
    /\ hpc = [e \in Entries |-> "idle"]
    /\ hdata = [e \in Entries |-> None]
    /\ firstOutcome = [e \in Entries |-> "none"]
    /\ registry = {}
    /\ forwarded = {}
    /\ healthy = FALSE
    /\ fresh = [e \in Entries |-> FALSE]

----------------------------------------------------------------------------
\* The consumers of the snapshot (entity.py, sensor.py, binary_sensor.py).

\* A value of a field of a tank record, and a value a property returns.
\* Numbers are held in hundredths (150.5 is 15050); "missing" is a key the
\* record does not have, "none" is Python's None, "raise" an exception that
\* leaves the property, "datetime" a time given by its epoch seconds.
Missing == [kind |-> "missing", num |-> 0, text |-> ""]

Unknown == [kind |-> "none", num |-> 0, text |-> ""]

Num(n) == [kind |-> "num", num |-> n, text |-> ""]

Str(x) == [kind |-> "str", num |-> 0, text |-> x]

Bool(b) == [kind |-> "bool", num |-> IF b THEN 1 ELSE 0, text |-> ""]

DateTime(epoch) == [kind |-> "datetime", num |-> epoch, text |-> ""]

Raises(exc) == [kind |-> "raise", num |-> 0, text |-> exc]

\* The strings float() accepts, with their values in hundredths.
FloatStrings ==
    [x \in {"150.5", "300", "0.25", "75", "0", "1.5", "1700"} |->
        CASE x = "150.5" -> 15050
          [] x = "300" -> 30000
          [] x = "0.25" -> 25
          [] x = "75" -> 7500
          [] x = "0" -> 0
          [] x = "1.5" -> 150
          [] x = "1700" -> 170000]

\* The strings int() accepts, with their values.
IntStrings ==
    [x \in {"300", "75", "0", "1700"} |->
        CASE x = "300" -> 300
          [] x = "75" -> 75
          [] x = "0" -> 0
          [] x = "1700" -> 1700]

\* _safe_float(x): float(x), or None on ValueError and TypeError.
_safe_float(x) ==
    CASE x.kind = "num" -> x
      [] x.kind = "str" /\ x.text \in DOMAIN FloatStrings -> Num(FloatStrings[x.text])
      [] OTHER -> Unknown

\* `_safe_float(x) or 0.0`, in hundredths.
FloatOrZero(x) == IF _safe_float(x) = Unknown THEN 0 ELSE _safe_float(x).num

\* bool(x) of a value: None, "" and 0 are false.
Truthy(x) ==
    CASE x.kind \in {"none", "missing"} -> FALSE
      [] x.kind = "str" -> x.text # ""
      [] x.kind \in {"num", "bool"} -> x.num # 0
      [] OTHER -> TRUE

\* str(x) of a value; the numbers it is applied to are whole.
PyStr(x) ==
    CASE x.kind = "str" -> x.text
      [] x.kind = "num" -> ToString(x.num \div 100)
      [] OTHER -> "None"

\* round(n / d, 0) for d > 0, ties to the even neighbour.
RoundHalfEven(n, d) ==
    LET q == n \div d
        r == n % d
    IN  IF 2 * r < d THEN q
        ELSE IF 2 * r > d THEN q + 1
        ELSE IF q % 2 = 0 THEN q ELSE q + 1

\* The fields of a tank record the entities read.
TankFields == {"tank_id", "tank_name", "zip_code", "sensor_gallons", "nominal", "fillable",
               "sensor_usg", "low_level", "battery", "sensor_status", "last_read"}

\* t.get(field)
Get(t, field) == IF t[field].kind = "missing" THEN Unknown ELSE t[field]

\* The tank records of the platforms' specification: identity and level.
PlatformTank(tank_id, gallons) ==
    [tank_id |-> tank_id, tank_name |-> Missing, zip_code |-> Missing,
     sensor_gallons |-> gallons, nominal |-> Str("300"), fillable |-> Missing,
     sensor_usg |-> Missing, low_level |-> Str("0.25"), battery |-> Missing,
     sensor_status |-> Missing, last_read |-> Missing]

PlatformTanks ==
    { PlatformTank(Num(100), Str("150.5")), PlatformTank(Str("1"), Num(7500)),
      PlatformTank(Num(200), Str("150.5")), PlatformTank(Missing, Num(7500)) }

\* The tank records of the entities' specification: every field present or
\* not, as a number, a numeric string or another string.
EntityTanks ==
    [tank_id : {Num(100), Missing},
     tank_name : {Str("Main")}, zip_code : {Missing},
     sensor_gallons : {Missing, Str("150.5"), Num(7500), Str("n/a")},
     nominal : {Missing, Str("300"), Num(0), Num(-100), Str("n/a")},
     fillable : {Str("300")},
     sensor_usg : {Str(""), Str("1.5")},
     low_level : {Missing, Str("0.25"), Str("n/a")},
     battery : {Missing, Str("Excellent"), Num(8500)},
     sensor_status : {Missing},
     last_read : {Missing, Str("n/a"), Num(170050)}]

\* coordinator.data: None before the first refresh that returned, then the
\* parsed body (a mapping, with or without a `tanks` list).
Snapshot(kind, hasTanks, tanks) == [kind |-> kind, hasTanks |-> hasTanks, tanks |-> tanks]

NoSnapshot == Snapshot("none", FALSE, <<>>)

PlatformResponses ==
    { Snapshot("dict", TRUE, ts) : ts \in SeqsUpTo(PlatformTanks, MaxTanks) }
    \cup { Snapshot("dict", FALSE, <<>>) }

EntityResponses ==
    { Snapshot("dict", TRUE, <<t>>) : t \in EntityTanks }

\* _tanks_from(data): the `tanks` list, [] when there is none.
_tanks_from(d) == IF d.kind = "dict" /\ d.hasTanks THEN d.tanks ELSE <<>>

\* str(tank.get("tank_id", "unknown")): the id the platforms create the
\* entities of a tank with.
CreatedId(t) == IF t["tank_id"].kind = "missing" THEN "unknown" ELSE PyStr(t["tank_id"])

\* str(t.get("tank_id")): the id _tank() compares with.
LookupId(t) == PyStr(Get(t, "tank_id"))

\* TankIndex that takes the first tank whatever its id.
TankIndex_FirstTank(d, tank_id) == IF Len(_tanks_from(d)) > 0 THEN 1 ELSE 0

\* _tank(): the position of the first record with the entity's tank id in
\* the current snapshot, 0 when there is none (None).
TankIndex(d, tank_id) ==
    LET ts == _tanks_from(d)
        found == {i \in 1..Len(ts) : LookupId(ts[i]) = tank_id}
    IN  IF found = {} THEN 0 ELSE CHOOSE i \in found : \A j \in found : i <= j

SensorClasses ==
    {"TankNameSensor", "TankIdSensor", "GallonsSensor", "SensorUsgSensor",
     "PercentFullSensor", "LastReadSensor", "BatteryStatusSensor", "StatusSensor",
     "NominalCapacitySensor", "FillableCapacitySensor", "LowLevelSensor", "ZipSensor"}

Entity(platform, cls, tank_id) == [platform |-> platform, cls |-> cls, tank_id |-> tank_id]

\* AccountSensor(coordinator, entry)
AccountEntity == Entity("sensor", "AccountSensor", "")

\* build_entities_for_tank of the two platforms.
build_entities_for_tank(platform, tank_id) ==
    IF platform = "sensor"
    THEN { Entity("sensor", c, tank_id) : c \in SensorClasses }
    ELSE { Entity("binary_sensor", "LowOilSensor", tank_id) }

RECURSIVE BuildLoop_StaleCheck(_, _)
\* BuildLoop that tests each tank against created_tank_ids as it was before
\* the loop.
BuildLoop_StaleCheck(ts, created) ==
    IF ts = <<>> THEN <<>>
    ELSE IF CreatedId(Head(ts)) \in created
         THEN BuildLoop_StaleCheck(Tail(ts), created)
         ELSE <<CreatedId(Head(ts))>> \o BuildLoop_StaleCheck(Tail(ts), created)

RECURSIVE BuildLoop(_, _)
\* The loop over the tanks of the snapshot, in _coordinator_updated and in
\* the platform's async_setup_entry: the tank ids build_entities_for_tank
\* is called for, in order; an id is added to created_tank_ids as soon as
\* it is met.
BuildLoop(ts, created) ==
    IF ts = <<>> THEN <<>>
    ELSE IF CreatedId(Head(ts)) \in created
         THEN BuildLoop(Tail(ts), created)
         ELSE <<CreatedId(Head(ts))>> \o BuildLoop(Tail(ts), created \cup {CreatedId(Head(ts))})

\* The platforms and the tank ids of the inputs.
Platforms == {"sensor", "binary_sensor"}

PlatformIds == {"1", "2", "unknown"}

\* built after the loop made the calls `ids` for platform pf.
Built(b, pf, ids) ==
    [k \in Platforms \X PlatformIds |->
        IF k[1] = pf
        THEN b[k] + Cardinality({i \in 1..Len(ids) : ids[i] = k[2]})
        ELSE b[k]]

\* NewTankIds that takes every tank of the snapshot for new.
NewTankIds_NoMemory(d, created) ==
    { CreatedId(_tanks_from(d)[i]) : i \in 1..Len(_tanks_from(d)) }

\* The tank ids the loop of _coordinator_updated (and of the platform's
\* async_setup_entry) finds in the snapshot and not in created_tank_ids.
NewTankIds(d, created) ==
    { BuildLoop(_tanks_from(d), created)[i] : i \in 1..Len(BuildLoop(_tanks_from(d), created)) }

\* PercentFull with the quotient cut off after two decimals.
PercentFull_Truncated(t) ==
    IF FloatOrZero(Get(t, "nominal")) <= 0 THEN Num(0)
    ELSE Num((FloatOrZero(Get(t, "sensor_gallons")) * 10000)
               \div FloatOrZero(Get(t, "nominal")))

\* PercentFullSensor.native_value of a tank that was found.
PercentFull(t) ==
    LET gallons == FloatOrZero(Get(t, "sensor_gallons"))
        capacity == FloatOrZero(Get(t, "nominal"))
    IN  IF capacity <= 0 THEN Num(0)
        ELSE Num(RoundHalfEven(gallons * 10000, capacity))

\* LowOil that is on only below the threshold.
LowOil_Strict(t) ==
    LET gallons == _safe_float(Get(t, "sensor_gallons"))
        low_fraction == _safe_float(Get(t, "low_level"))
        capacity == _safe_float(Get(t, "nominal"))
    IN  IF Unknown \in {gallons, capacity, low_fraction} THEN Unknown
        ELSE Bool(gallons.num * 100 < capacity.num * low_fraction.num)

\* LowOilSensor.is_on of a tank that was found: gallons <= capacity *
\* low_fraction, all three in hundredths.
LowOil(t) ==
    LET gallons == _safe_float(Get(t, "sensor_gallons"))
        low_fraction == _safe_float(Get(t, "low_level"))
        capacity == _safe_float(Get(t, "nominal"))
    IN  IF Unknown \in {gallons, capacity, low_fraction} THEN Unknown
        ELSE Bool(gallons.num * 100 <= capacity.num * low_fraction.num)

\* LastReadSensor.native_value of a tank that was found: int() of the
\* field, None on ValueError and TypeError.
LastRead(t) ==
    LET x == Get(t, "last_read")
    IN  CASE x.kind = "num" -> DateTime(x.num \div 100)
          [] x.kind = "str" /\ x.text \in DOMAIN IntStrings -> DateTime(IntStrings[x.text])
          [] OTHER -> Unknown

\* SensorUsgSensor.native_value of a tank that was found.
SensorUsg(t) ==
    LET raw == Get(t, "sensor_usg")
    IN  IF raw \in {Unknown, Str("")} THEN Unknown ELSE _safe_float(raw)

\* LowLevelSensor.native_value of a tank that was found.
LowLevel(t) ==
    LET fraction == _safe_float(Get(t, "low_level"))
    IN  IF fraction = Unknown THEN Unknown ELSE Num(fraction.num * 100)

\* native_value (is_on for the binary sensor) of an entity on snapshot d.
native_value(ent, d) ==
    IF ent.cls = "AccountSensor" THEN Num(Len(_tanks_from(d)) * 100)
    ELSE LET i == TankIndex(d, ent.tank_id)
             t == _tanks_from(d)[i]
         IN  IF i = 0 THEN Unknown
             ELSE CASE ent.cls = "TankNameSensor" -> Get(t, "tank_name")
                    [] ent.cls = "TankIdSensor" -> Get(t, "tank_id")
                    [] ent.cls = "ZipSensor" -> Get(t, "zip_code")
                    [] ent.cls = "StatusSensor" -> Get(t, "sensor_status")
                    [] ent.cls = "BatteryStatusSensor" -> Get(t, "battery")
                    [] ent.cls = "GallonsSensor" -> _safe_float(Get(t, "sensor_gallons"))
                    [] ent.cls = "NominalCapacitySensor" -> _safe_float(Get(t, "nominal"))
                    [] ent.cls = "FillableCapacitySensor" -> _safe_float(Get(t, "fillable"))
                    [] ent.cls = "SensorUsgSensor" -> SensorUsg(t)
                    [] ent.cls = "PercentFullSensor" -> PercentFull(t)
                    [] ent.cls = "LowLevelSensor" -> LowLevel(t)
                    [] ent.cls = "LastReadSensor" -> LastRead(t)
                    [] ent.cls = "LowOilSensor" -> LowOil(t)

\* BatteryStatusSensor.icon: (self.native_value or "").lower(); a number
\* that is not 0 has no lower().
icon(ent, d) ==
    LET val == native_value(ent, d)
    IN  IF ~Truthy(val) THEN Str("mdi:battery-alert")
        ELSE IF val.kind # "str" THEN Raises("AttributeError")
        ELSE IF Lower(val.text) = "excellent" THEN Str("mdi:battery")
        ELSE Str("mdi:battery-alert")

\* The properties Home Assistant reads of an entity.
Properties(ent) ==
    IF ent.cls = "BatteryStatusSensor" THEN {"native_value", "icon"}
    ELSE IF ent.cls = "LowOilSensor" THEN {"is_on"}
    ELSE {"native_value"}

ReadProperty(ent, prop, d) == IF prop = "icon" THEN icon(ent, d) ELSE native_value(ent, d)

NoReading == [ent |-> AccountEntity, prop |-> "none", value |-> Unknown]

PlatInit ==
    /\ cdata = NoSnapshot
    /\ response = NoSnapshot
    /\ updateOutcome = "none"
    /\ repeated = FALSE
    /\ loaded = FALSE
    /\ sensor_created = {}
    /\ binary_created = {}
    /\ entities = {}
    /\ added = {}
    /\ reading = NoReading
    /\ built = [k \in Platforms \X PlatformIds |-> 0]

FlowInit ==
    /\ configured = [u \in Accounts |-> 0]
    /\ flowResult = [type |-> "none", errors |-> {}, username |-> "", scan_interval |-> 0]
    /\ flowCalls = <<>>
    /\ flowResults = <<>>

\* A key a mapping does not have is the empty set, a key with value v is {v}.
Absent == {}

Value(opt) == CHOOSE v \in opt : TRUE

NoEntryData == [username |-> "", password |-> "", scan_interval |-> Absent]

\* A coordinator as the lifecycle sees it: the arguments of its __init__,
\* and, for the properties, the entry's data and options when it was made.
Coordinator(id, username, password, scan_interval, made_from) ==
    [id |-> id, username |-> username, password |-> password,
     update_interval |-> scan_interval, made_from |-> made_from]

NoCoordinator == Coordinator(0, "", "", 0, [data |-> NoEntryData, options |-> Absent])

LifeInit ==
    /\ entryState = "no_entry"
    /\ entryData = NoEntryData
    /\ entryOptions = Absent
    /\ coordinator = NoCoordinator
    /\ listener = FALSE
    /\ pendingReload = FALSE
    /\ loginWith = {}
    /\ nCreated = 0
    /\ unloadReturn = FALSE

Init ==
    /\ HassInit
    /\ PlatInit
    /\ FlowInit
    /\ LifeInit
    /\ pc = "idle"
    /\ inflight = NoResp
    /\ data = None
    /\ coordState = "NoData"
    /\ outcome = "none"
    /\ nonce = NoNonce
    /\ nLogin = 0
    /\ nFetch = 0
    /\ r1 = NotCalled
    /\ rl = NotCalled
    /\ r2 = NotCalled
    /\ dataBefore = None
    /\ stateBefore = "NoData"
    /\ lastGood = None
    /\ requests = <<>>

\* The timer or a manual request starts _async_update_data, which sends
\* the first get_tanks_list() request.
Refresh ==
    /\ pc = "idle"
    /\ pc' = "fetch1"
    /\ inflight' = NoResp
    /\ outcome' = "running"
    /\ nonce' = NoNonce
    /\ nLogin' = 0
    /\ nFetch' = 1
    /\ requests' = SendAjax(<<>>)
    /\ r1' = NotCalled
    /\ rl' = NotCalled
    /\ r2' = NotCalled
    /\ dataBefore' = data
    /\ stateBefore' = coordState
    /\ UNCHANGED <<data, coordState, lastGood>>
    /\ UNCHANGED <<hassVars, platVars, flowVars, lifeVars>>

\* The transport delivers the outcome of the pending exchange.
AjaxResponds(t) ==
    /\ pc \in {"fetch1", "fetch2"}
    /\ inflight = NoResp
    /\ inflight' = t
    /\ UNCHANGED <<pc, data, coordState, outcome, nonce, nLogin, nFetch, r1, rl, r2,
                   dataBefore, stateBefore, lastGood, requests>>
    /\ UNCHANGED <<hassVars, platVars, flowVars, lifeVars>>

LoginPageResponds(t) ==
    /\ pc = "login_get"
    /\ inflight = NoResp
    /\ inflight' = t
    /\ UNCHANGED <<pc, data, coordState, outcome, nonce, nLogin, nFetch, r1, rl, r2,
                   dataBefore, stateBefore, lastGood, requests>>
    /\ UNCHANGED <<hassVars, platVars, flowVars, lifeVars>>

LoginPostResponds(t) ==
    /\ pc = "login_post"
    /\ inflight = NoResp
    /\ inflight' = t
    /\ UNCHANGED <<pc, data, coordState, outcome, nonce, nLogin, nFetch, r1, rl, r2,
                   dataBefore, stateBefore, lastGood, requests>>
    /\ UNCHANGED <<hassVars, platVars, flowVars, lifeVars>>

\* The first get_tanks_list() comes back to the outer try.
FirstFetchReturns ==
    /\ pc = "fetch1"
    /\ inflight # NoResp
    /\ LET r == get_tanks_list(inflight)
       IN  /\ r1' = Log(r)
           /\ Advance(OuterHandler(r.res), r.data)
    /\ UNCHANGED <<nonce, rl, r2, dataBefore, stateBefore>>
    /\ UNCHANGED <<hassVars, platVars, flowVars, lifeVars>>

\* login(): _fetch_nonce() comes back; login() sends the POST or raises.
LoginPageReturns ==
    /\ pc = "login_get"
    /\ inflight # NoResp
    /\ LET r == _fetch_nonce(inflight)
       IN  IF r.res = "ok"
           THEN /\ pc' = "login_post"
                /\ nonce' = r.nonce
                /\ inflight' = NoResp
                /\ requests' = SendLoginPost(requests, CoordUsername, CoordPassword, r.nonce)
                /\ UNCHANGED <<data, coordState, outcome, nLogin, nFetch, rl, lastGood>>
           ELSE /\ rl' = Log(r)
                /\ nonce' = NoNonce
                /\ Advance(AfterLogin(r.res), None)
    /\ UNCHANGED <<r1, r2, dataBefore, stateBefore>>
    /\ UNCHANGED <<hassVars, platVars, flowVars, lifeVars>>

\* login(): the POST comes back; login() returns or raises into the inner try.
LoginPostReturns ==
    /\ pc = "login_post"
    /\ inflight # NoResp
    /\ LET r == login_post(inflight)
       IN  /\ rl' = Log(r)
           /\ Advance(AfterLogin(r.res), None)
    /\ nonce' = NoNonce
    /\ UNCHANGED <<r1, r2, dataBefore, stateBefore>>
    /\ UNCHANGED <<hassVars, platVars, flowVars, lifeVars>>

\* The retried get_tanks_list() comes back to the inner try.
RetryFetchReturns ==
    /\ pc = "fetch2"
    /\ inflight # NoResp
    /\ LET r == get_tanks_list(inflight)
       IN  /\ r2' = Log(r)
           /\ Advance(AfterRetry(r.res), RetryReturn(r))
    /\ UNCHANGED <<nonce, r1, rl, dataBefore, stateBefore>>
    /\ UNCHANGED <<hassVars, platVars, flowVars, lifeVars>>

Next ==
    \/ Refresh
    \/ \E t \in AjaxResponses : AjaxResponds(t)
    \/ \E t \in LoginPageResponses : LoginPageResponds(t)
    \/ \E t \in LoginPostResponses : LoginPostResponds(t)
    \/ FirstFetchReturns
    \/ LoginPageReturns
    \/ LoginPostReturns
    \/ RetryFetchReturns

Spec == Init /\ [][Next]_vars

TypeOK ==
    /\ pc \in {"idle", "fetch1", "login_get", "login_post", "fetch2"}
    /\ coordState \in {"NoData", "Ready", "NeedsReauth"}
    /\ nonce \in Nonces \cup {NoNonce}

----------------------------------------------------------------------------
\* Properties of one refresh.

Done == pc = "idle" /\ outcome # "none"

Calls == {r1, rl, r2}

Failed(r) == r.res \notin {"ok", "not_called"}

\* C1: a refresh whose first get_tanks_list() raised AuthError, whose
\* login() succeeded and whose second get_tanks_list() succeeded returns the
\* second response as the snapshot (Ready), after exactly one login() and
\* exactly two get_tanks_list() calls.
C1_ReloginThenSnapshot ==
    (Done /\ r1.res = "AuthError" /\ rl.res = "ok" /\ r2.res = "ok")
        => /\ outcome = "returned"
           /\ coordState = "Ready"
           /\ data = inflight.json
           /\ nLogin = 1
           /\ nFetch = 2

C1_Witness ==
    /\ Done /\ r1.res = "AuthError" /\ rl.res = "ok" /\ r2.res = "ok"
    /\ HasKey(data, "tanks") /\ Len(data.tanks) = 1
    /\ dataBefore # data

\* C2: first get_tanks_list() AuthError, then login() AuthError: the refresh
\* ends with ConfigEntryAuthFailed (NeedsReauth), no second get_tanks_list()
\* is issued and the cached snapshot is what it was before the refresh.
C2_LoginRejected ==
    (r1.res = "AuthError" /\ rl.res = "AuthError")
        => /\ pc = "idle"
           /\ outcome = "ConfigEntryAuthFailed"
           /\ coordState = "NeedsReauth"
           /\ nFetch = 1
           /\ r2 = NotCalled
           /\ data = dataBefore

C2_Witness ==
    /\ Done /\ r1.res = "AuthError" /\ rl.res = "AuthError"
    /\ HasKey(dataBefore, "tanks") /\ Len(dataBefore.tanks) = 2

\* C3: after a successful re-login, any failure of the retried
\* get_tanks_list() ends the refresh with UpdateFailed; ConfigEntryAuthFailed
\* is raised only if the login() of that refresh failed with AuthError.
C3_RetryFailureIsRecoverable ==
    /\ (Done /\ rl.res = "ok" /\ Failed(r2)) => outcome = "UpdateFailed"
    /\ (Done /\ outcome = "ConfigEntryAuthFailed") => rl.res = "AuthError"

\* C4: an initial get_tanks_list() that raises ApiError or any exception
\* other than AuthError ends the refresh with UpdateFailed, with no login()
\* and no second get_tanks_list(), state and snapshot unchanged.
C4_InitialFailure ==
    (r1.res \in {"ApiError", "Other"})
        => /\ pc = "idle"
           /\ outcome = "UpdateFailed"
           /\ nLogin = 0
           /\ nFetch = 1
           /\ rl = NotCalled
           /\ r2 = NotCalled
           /\ coordState = stateBefore
           /\ data = dataBefore

C4_Witness ==
    /\ Done /\ r1.res = "Other"
    /\ stateBefore = "Ready"
    /\ HasKey(dataBefore, "tanks") /\ Len(dataBefore.tanks) = 1

\* How far a running refresh has got.
PcRank(p) ==
    CASE p = "fetch1" -> 1
      [] p = "login_get" -> 2
      [] p = "login_post" -> 3
      [] p = "fetch2" -> 4
      [] OTHER -> 5

\* C5: in one refresh login() is called at most once and get_tanks_list() at
\* most twice, the second only after a login() that succeeded in the same
\* refresh, and a running refresh never goes back to an earlier exchange.
C5_BoundedRetry ==
    [][ /\ nLogin' <= 1
        /\ nFetch' <= 2
        /\ (nFetch' = 2 \/ pc' = "fetch2") => (rl'.res = "ok" /\ nLogin' = 1)
        /\ (pc # "idle") => PcRank(pc') >= PcRank(pc) ]_vars

C5_Witness ==
    /\ Done /\ nLogin = 1 /\ nFetch = 2
    /\ r2.res = "AuthError"

\* C6: the cached snapshot is the response of the most recent refresh that
\* returned (None if none has); a refresh that ends in UpdateFailed or
\* ConfigEntryAuthFailed leaves it as it was.
C6_SnapshotIsLastGood ==
    /\ data = lastGood
    /\ (Done /\ outcome # "returned") => data = dataBefore
    /\ (pc # "idle") => data = dataBefore

C6_Witness ==
    /\ Done /\ outcome = "UpdateFailed"
    /\ HasKey(lastGood, "tanks") /\ Len(lastGood.tanks) = 2
    /\ inflight.json # lastGood /\ HasKey(inflight.json, "tanks")

\* C7: when get_tanks_list() returns a response that contains a tanks
\* sequence, the published snapshot is that response, unchanged, on the
\* direct path and on the retry path.
C7_SnapshotVerbatim ==
    (Done /\ outcome = "returned" /\ HasKey(inflight.json, "tanks"))
        => data = inflight.json

C7_Witness ==
    /\ Done /\ outcome = "returned" /\ r2.res = "ok"
    /\ HasKey(inflight.json, "tanks") /\ Len(inflight.json.tanks) = 2
    /\ inflight.json.tanks[1] # inflight.json.tanks[2]
    /\ HasKey(inflight.json, "result") /\ HasKey(inflight.json, "Status")

\* C8: whatever the client does, a refresh ends with a returned snapshot,
\* with UpdateFailed or with ConfigEntryAuthFailed.
C8_ThreeOutcomes ==
    Done => outcome \in Outcomes

C8_Witness ==
    /\ Done /\ outcome = "UpdateFailed"
    /\ rl.res = "Other"

\* C9: whatever the transport does, login() and get_tanks_list() return or
\* raise AuthError or ApiError, and nothing else.
C9_ClientRaisesOnlyItsOwn ==
    \A r \in Calls : r.res \in {"not_called", "ok", "AuthError", "ApiError"}

\* C10: a timeout in an exchange makes the client call raise ApiError, and
\* a refresh whose only failures are timeouts does not end with
\* ConfigEntryAuthFailed.
C10_TimeoutIsApiError ==
    /\ \A r \in Calls : r.cause = "timeout" => r.res = "ApiError"
    /\ (Done /\ \A r \in Calls : Failed(r) => r.cause = "timeout")
           => outcome # "ConfigEntryAuthFailed"

C10_Witness ==
    /\ Done /\ r1.res = "AuthError"
    /\ rl.res = "ApiError" /\ rl.cause = "timeout"
    /\ inflight.sendExc = "none" /\ inflight.readExc = "timeout"

----------------------------------------------------------------------------
\* Properties of the client's classification of a response.

\* A get_tanks_list() exchange has been delivered and the call is about to
\* come back.
AjaxDelivered == pc \in {"fetch1", "fetch2"} /\ inflight # NoResp

\* The refresh ended with the retried get_tanks_list(): inflight is its
\* exchange and r2 its result.
RetryEnded == Done /\ r2 # NotCalled

\* The refresh ended with login(): r2 was never called and rl failed.  When
\* inflight holds no transport exception it is the exchange of the POST.
LoginEnded == Done /\ rl # NotCalled /\ r2 = NotCalled

NoTransportExc(t) == t.sendExc = "none" /\ t.readExc = "none"

\* The body of the response was read: no transport exception, status < 400.
BodyRead(t) == NoTransportExc(t) /\ t.status < 400

\* C15: a response below 400 with a JSON content type whose body is a
\* mapping with Status 401 or 403 makes get_tanks_list() raise AuthError,
\* whatever its result field, and is never published as a snapshot.
C15_Unauthorized(t) ==
    BodyRead(t) /\ t.ctypeJson /\ HasKey(t.json, "Status") /\ t.json.Status \in {401, 403}

C15_JsonStatusIsAuthError ==
    /\ (AjaxDelivered /\ C15_Unauthorized(inflight))
           => get_tanks_list(inflight).res = "AuthError"
    /\ (RetryEnded /\ C15_Unauthorized(inflight))
           => (r2.res = "AuthError" /\ outcome # "returned" /\ data = dataBefore)

C15_Witness ==
    /\ RetryEnded /\ C15_Unauthorized(inflight) /\ r2.res = "AuthError"
    /\ inflight.json.Status = 401
    /\ HasKey(inflight.json, "result") /\ inflight.json.result = "error"
    /\ HasKey(inflight.json, "tanks")

\* C16: a response below 400 that is not JSON and whose body contains
\* user_pass makes get_tanks_list() raise AuthError.
C16_LoginForm(t) ==
    BodyRead(t) /\ ~t.ctypeJson /\ "user_pass" \in t.markers

C16_HtmlLoginFormIsAuthError ==
    /\ (AjaxDelivered /\ C16_LoginForm(inflight))
           => get_tanks_list(inflight).res = "AuthError"
    /\ (RetryEnded /\ C16_LoginForm(inflight))
           => (r2.res = "AuthError" /\ outcome # "returned")

C16_Witness ==
    /\ RetryEnded /\ r2.res = "AuthError"
    /\ BodyRead(inflight) /\ ~inflight.ctypeJson /\ inflight.markers = {"user_pass"}

\* A response below 400 that is not JSON.
NotJson(t) == BodyRead(t) /\ ~t.ctypeJson

\* C17 as claimed: a non-JSON body gives AuthError exactly when it has the
\* markers login() looks for (user_pass, or both Login and Smart Oil Gauge),
\* and ApiError otherwise.
C17_SameMarkersAsLogin ==
    (RetryEnded /\ NotJson(inflight))
        => r2.res = IF \/ "user_pass" \in inflight.markers
                       \/ "Login" \in inflight.markers
                            /\ "Smart Oil Gauge" \in inflight.markers
                    THEN "AuthError" ELSE "ApiError"

\* C17 as amended: a non-JSON body gives AuthError exactly when it contains
\* ccf_nonce, user_pass or Login, and ApiError otherwise.
C17_AnyOfThreeMarkers ==
    /\ (AjaxDelivered /\ NotJson(inflight))
           => get_tanks_list(inflight).res =
                  IF inflight.markers \cap {"ccf_nonce", "user_pass", "Login"} # {}
                  THEN "AuthError" ELSE "ApiError"
    /\ (RetryEnded /\ NotJson(inflight))
           => r2.res = IF inflight.markers \cap {"ccf_nonce", "user_pass", "Login"} # {}
                       THEN "AuthError" ELSE "ApiError"

C17_Witness ==
    /\ RetryEnded /\ NotJson(inflight)
    /\ inflight.markers = {"Login"}
    /\ r2.res = "AuthError"

\* The outcome the precedence of C18 gives a response that came without a
\* transport exception ("rejected": AuthError or ApiError, by the body).
C18_Expected(t) ==
    IF t.status \in {401, 403} THEN "AuthError"
    ELSE IF t.status >= 400 THEN "ApiError"
    ELSE IF ~t.ctypeJson THEN "rejected"
    ELSE IF t.json = JsonInvalid THEN "ApiError"
    ELSE IF HasKey(t.json, "Status") /\ t.json.Status \in {401, 403} THEN "AuthError"
    ELSE IF HasKey(t.json, "result") /\ t.json.result # JsonNull
            /\ Lower(t.json.result) # "ok" THEN "ApiError"
    ELSE "ok"

C18_Agrees(res, t) ==
    IF C18_Expected(t) = "rejected"
    THEN res \in {"AuthError", "ApiError"}
    ELSE res = C18_Expected(t)

\* C18: get_tanks_list() decides by the first check that applies: HTTP
\* 401/403, any other status of 400 or more, a content type that is not JSON,
\* a body that does not parse, the Status field, the result field; otherwise
\* it returns the parsed body.
C18_Precedence ==
    /\ (AjaxDelivered /\ NoTransportExc(inflight))
           => LET r == get_tanks_list(inflight)
              IN  /\ C18_Agrees(r.res, inflight)
                  /\ r.res = "ok" => r.data = inflight.json
    /\ (RetryEnded /\ NoTransportExc(inflight))
           => /\ C18_Agrees(r2.res, inflight)
              /\ r2.res = "ok" => data = inflight.json

C18_Witness ==
    /\ RetryEnded /\ NoTransportExc(inflight)
    /\ inflight.status = 404 /\ "user_pass" \in inflight.markers
    /\ r2.res = "ApiError"

\* A JSON mapping without a 401/403 Status.
C19_Mapping(t) ==
    /\ BodyRead(t) /\ t.ctypeJson /\ t.json.kind = "dict"
    /\ ~(HasKey(t.json, "Status") /\ t.json.Status \in {401, 403})

\* C19 as claimed: such a mapping gives ApiError exactly when it has a
\* result field whose value, lower-cased, is not "ok"; otherwise it is
\* returned as the snapshot.
C19_ResultNotOk ==
    (RetryEnded /\ C19_Mapping(inflight))
        => IF HasKey(inflight.json, "result") /\ Lower(inflight.json.result) # "ok"
           THEN r2.res = "ApiError"
           ELSE r2.res = "ok" /\ data = inflight.json

\* C19 as amended: such a mapping gives ApiError exactly when it has a
\* result field whose value is not null and, lower-cased, is not "ok";
\* otherwise (no result field, a null one, or "ok" in any case) it is
\* returned as the snapshot.
C19_ResultNotNullNotOk ==
    /\ (AjaxDelivered /\ C19_Mapping(inflight))
           => (get_tanks_list(inflight).res = "ApiError"
                  <=> /\ HasKey(inflight.json, "result")
                      /\ inflight.json.result \notin {JsonNull, "ok", "OK", "Ok"})
    /\ (RetryEnded /\ C19_Mapping(inflight))
           => IF /\ HasKey(inflight.json, "result")
                 /\ inflight.json.result \notin {JsonNull, "ok", "OK", "Ok"}
              THEN r2.res = "ApiError"
              ELSE r2.res = "ok" /\ data = inflight.json

C19_Witness ==
    /\ RetryEnded /\ C19_Mapping(inflight)
    /\ HasKey(inflight.json, "result") /\ inflight.json.result = "OK"
    /\ outcome = "returned" /\ data = inflight.json

\* C20: a login POST response whose status is neither 5xx nor 401/403 and
\* whose body contains the password field makes login() raise AuthError; it
\* is never taken for a successful login.
C20_FormStillThere(t) ==
    /\ NoTransportExc(t) /\ t.status < 500 /\ t.status \notin {401, 403}
    /\ "user_pass" \in t.markers

C20_LoginFormIsAuthError ==
    /\ (pc = "login_post" /\ inflight # NoResp /\ C20_FormStillThere(inflight))
           => login_post(inflight).res = "AuthError"
    /\ (LoginEnded /\ C20_FormStillThere(inflight))
           => (rl.res = "AuthError" /\ outcome = "ConfigEntryAuthFailed")

C20_Witness ==
    /\ LoginEnded /\ NoTransportExc(inflight)
    /\ inflight.status = 200 /\ inflight.markers = {"user_pass"}
    /\ rl.res = "AuthError"

----------------------------------------------------------------------------
\* Config entries: async_setup_entry, async_unload_entry and the refreshes
\* of the entries' coordinators, at the grain of the client's calls.  The
\* upstream answers a data request by the cookies it comes with and sets
\* the cookies of a session when it accepts a login.

\* The tanks of an account, as the data endpoint lists them.
AccountData(acct) ==
    JsonValue("dict", {"tanks"}, 0, "", << [tank_id |-> IF acct = "alice" THEN 1 ELSE 2] >>)

\* The account whose tanks a snapshot holds.
OwnerOf(d) ==
    IF d = AccountData("alice") THEN "alice"
    ELSE IF d = AccountData("bob") THEN "bob"
    ELSE "none"

\* The answers to a data request sent with the cookies of acct, or a
\* timeout.
ServerAjax(acct) ==
    { IF acct = "anon"
      THEN Exchange("none", 401, FALSE, "none", {}, NoNonce, None)
      ELSE Exchange("none", 200, TRUE, "none", {}, NoNonce, AccountData(acct)),
      Exchange("timeout", 0, FALSE, "none", {}, NoNonce, None) }

\* The login page, with its nonce.
ServerLoginPage ==
    Exchange("none", 200, FALSE, "none", {"ccf_nonce", "user_pass", "Login"},
             CHOOSE n \in Nonces : TRUE, None)

\* The answers to a login POST: accepted (the application's page), rejected
\* (the login form again), or a timeout.
LoginAccepted == Exchange("none", 200, FALSE, "none", {}, NoNonce, None)

ServerLoginPost ==
    { LoginAccepted,
      Exchange("none", 200, FALSE, "none", {"user_pass", "Login"}, NoNonce, None),
      Exchange("timeout", 0, FALSE, "none", {}, NoNonce, None) }

\* SetupRaise with every failure of the first refresh raised as not ready.
SetupRaise_AllNotReady(exc) == "ConfigEntryNotReady"

\* What async_setup_entry raises when the first refresh raised exc.
SetupRaise(exc) ==
    IF exc = "ConfigEntryAuthFailed" THEN exc ELSE "ConfigEntryNotReady"

\* async_setup_entry up to the first request of the first refresh: a new
\* client on the shared session and a new coordinator.
SetupEntry(e) ==
    /\ setupState[e] \in {"not_loaded", "ConfigEntryAuthFailed", "ConfigEntryNotReady"}
    /\ setupState' = [setupState EXCEPT ![e] = "setting_up"]
    /\ hpc' = [hpc EXCEPT ![e] = "fetch1"]
    /\ hdata' = [hdata EXCEPT ![e] = None]
    /\ firstOutcome' = [firstOutcome EXCEPT ![e] = "none"]
    /\ UNCHANGED <<jar, registry, forwarded, healthy, fresh, coordVars, platVars, flowVars, lifeVars>>

\* A later refresh of a coordinator that is set up starts.
EntryRefresh(e) ==
    /\ setupState[e] = "loaded"
    /\ hpc[e] = "idle"
    /\ hpc' = [hpc EXCEPT ![e] = "fetch1"]
    /\ UNCHANGED <<jar, setupState, hdata, firstOutcome, registry, forwarded, healthy, fresh,
                   coordVars, platVars, flowVars, lifeVars>>

\* The refresh of e's coordinator goes on to `next`; when it ends and it
\* was the first one, async_setup_entry goes on: it registers the
\* coordinator and forwards the platforms, or raises.
EntryAdvance(e, next, value) ==
    IF next \in {"login", "fetch2"}
    THEN /\ hpc' = [hpc EXCEPT ![e] = next]
         /\ UNCHANGED <<setupState, hdata, firstOutcome, registry, forwarded, fresh>>
    ELSE /\ hpc' = [hpc EXCEPT ![e] = "idle"]
         /\ fresh' = [fresh EXCEPT ![e] = @ \/ (healthy /\ next = "returned")]
         /\ hdata' = [hdata EXCEPT ![e] = PublishedData(next, value, hdata[e])]
         /\ IF setupState[e] = "setting_up"
            THEN /\ firstOutcome' = [firstOutcome EXCEPT ![e] = next]
                 /\ IF next = "returned"
                    THEN /\ setupState' = [setupState EXCEPT ![e] = "loaded"]
                         /\ registry' = registry \cup {e}
                         /\ forwarded' = forwarded \cup {e}
                    ELSE /\ setupState' = [setupState EXCEPT ![e] = SetupRaise(next)]
                         /\ UNCHANGED <<registry, forwarded>>
            ELSE UNCHANGED <<setupState, firstOutcome, registry, forwarded>>

\* The first get_tanks_list() of a refresh of e's coordinator.
EntryFirstFetch(e, t) ==
    /\ hpc[e] = "fetch1"
    /\ t \in ServerAjax(jar[SessionOf(e)])
    /\ healthy => t.sendExc = "none"
    /\ LET r == get_tanks_list(t)
       IN  EntryAdvance(e, OuterHandler(r.res), r.data)
    /\ UNCHANGED <<jar, healthy, coordVars, platVars, flowVars, lifeVars>>

\* The login() of a refresh of e's coordinator, with the entry's
\* credentials: when it returns, the session's cookies are those of the
\* entry's account.
EntryLogin(e, t) ==
    /\ hpc[e] = "login"
    /\ t \in ServerLoginPost
    /\ healthy => t = LoginAccepted
    /\ LET r == login(ServerLoginPage, t)
       IN  /\ EntryAdvance(e, AfterLogin(r.res), None)
           /\ jar' = IF t = LoginAccepted
                     THEN [jar EXCEPT ![SessionOf(e)] = Username(e)]
                     ELSE jar
    /\ UNCHANGED <<healthy, coordVars, platVars, flowVars, lifeVars>>

\* The retried get_tanks_list() of a refresh of e's coordinator.
EntryRetryFetch(e, t) ==
    /\ hpc[e] = "fetch2"
    /\ t \in ServerAjax(jar[SessionOf(e)])
    /\ healthy => t.sendExc = "none"
    /\ LET r == get_tanks_list(t)
       IN  EntryAdvance(e, AfterRetry(r.res), RetryReturn(r))
    /\ UNCHANGED <<jar, healthy, coordVars, platVars, flowVars, lifeVars>>

\* async_unload_entry: the coordinator leaves the registry when the
\* platforms unloaded.
UnloadEntry(e, unload_ok) ==
    /\ setupState[e] = "loaded"
    /\ hpc[e] = "idle"
    /\ IF unload_ok
       THEN /\ registry' = registry \ {e}
            /\ forwarded' = forwarded \ {e}
            /\ setupState' = [setupState EXCEPT ![e] = "not_loaded"]
       ELSE UNCHANGED <<registry, forwarded, setupState>>
    /\ UNCHANGED <<jar, hpc, hdata, firstOutcome, healthy, fresh, coordVars, platVars, flowVars, lifeVars>>

\* The upstream ends a session: its cookies authenticate nobody any more.
SessionExpires(s) ==
    /\ ~healthy
    /\ jar[s] # "anon"
    /\ jar' = [jar EXCEPT ![s] = "anon"]
    /\ UNCHANGED <<setupState, hpc, hdata, firstOutcome, registry, forwarded, healthy, fresh,
                   coordVars, platVars, flowVars, lifeVars>>

\* From now on the upstream answers every request: a data request without
\* valid cookies with 401, a login with the stored credentials by accepting
\* it, a data request with valid cookies with the tanks; sessions no longer
\* expire.
UpstreamRecovers ==
    /\ ~healthy
    /\ healthy' = TRUE
    /\ fresh' = [e \in Entries |-> FALSE]
    /\ UNCHANGED <<jar, setupState, hpc, hdata, firstOutcome, registry, forwarded,
                   coordVars, platVars, flowVars, lifeVars>>

HassNext ==
    \/ \E e \in Entries : SetupEntry(e)
    \/ \E e \in Entries : EntryRefresh(e)
    \/ \E e \in Entries : \E t \in AjaxResponses : EntryFirstFetch(e, t)
    \/ \E e \in Entries : \E t \in LoginPostResponses : EntryLogin(e, t)
    \/ \E e \in Entries : \E t \in AjaxResponses : EntryRetryFetch(e, t)
    \/ \E e \in Entries : \E ok \in BOOLEAN : UnloadEntry(e, ok)
    \/ \E s \in Sessions : SessionExpires(s)
    \/ UpstreamRecovers

HassSpec == Init /\ [][HassNext]_vars

\* C12: with two entries for two accounts, every snapshot a coordinator
\* publishes was fetched with cookies of its own account.
C12_OwnSession ==
    \A e \in Entries : hdata[e] # None => OwnerOf(hdata[e]) = Username(e)

\* C14: when the first refresh fails, async_setup_entry raises
\* ConfigEntryAuthFailed for a reauth outcome and ConfigEntryNotReady for
\* every other failure; in both cases the coordinator is not registered and
\* no platform is forwarded; a registered coordinator holds the snapshot of
\* a first refresh that returned.
C14_FirstRefreshFailure ==
    \A e \in Entries :
        /\ firstOutcome[e] = "ConfigEntryAuthFailed" => setupState[e] = "ConfigEntryAuthFailed"
        /\ firstOutcome[e] = "UpdateFailed" => setupState[e] = "ConfigEntryNotReady"
        /\ setupState[e] \in {"ConfigEntryAuthFailed", "ConfigEntryNotReady"}
              => (e \notin registry /\ e \notin forwarded)
        /\ e \in registry => (firstOutcome[e] = "returned" /\ hdata[e] # None)

C14_Witness ==
    /\ setupState["e1"] = "ConfigEntryAuthFailed"
    /\ setupState["e2"] = "ConfigEntryNotReady"
    /\ registry = {}

----------------------------------------------------------------------------
\* Further properties of the client and of the consumers of the snapshot.

\* The login POST's exchange has been delivered and login() is about to
\* come back.
LoginPostDelivered == pc = "login_post" /\ inflight # NoResp

\* The outcome the order of C21 gives a POST response that came without a
\* transport exception.
C21_Expected(t) ==
    IF t.status >= 500 THEN "ApiError"
    ELSE IF t.status \in {401, 403} THEN "AuthError"
    ELSE IF "user_pass" \in t.markers THEN "AuthError"
    ELSE IF {"Login", "Smart Oil Gauge"} \subseteq t.markers THEN "AuthError"
    ELSE "ok"

----------------------------------------------------------------------------
\* The platforms of one entry and its coordinator's refreshes, at the grain
\* of whole refreshes.

\* async_setup_entry of sensor.py and binary_sensor.py, forwarded after the
\* first refresh returned: the account sensor, the entities of the tanks of
\* the snapshot, and the two listeners.
PlatformSetup ==
    /\ ~loaded
    /\ cdata # NoSnapshot
    /\ loaded' = TRUE
    /\ sensor_created' = NewTankIds(cdata, {})
    /\ binary_created' = NewTankIds(cdata, {})
    /\ added' = {AccountEntity}
                \cup UNION { build_entities_for_tank("sensor", id) : id \in sensor_created' }
                \cup UNION { build_entities_for_tank("binary_sensor", id) : id \in binary_created' }
    /\ entities' = added'
    /\ built' = Built(Built(built, "sensor", BuildLoop(_tanks_from(cdata), {})),
                      "binary_sensor", BuildLoop(_tanks_from(cdata), {}))
    /\ UNCHANGED <<cdata, response, updateOutcome, repeated, reading, coordVars, hassVars, flowVars, lifeVars>>

\* A refresh returns the body d: the snapshot is replaced, then the
\* listeners run, sensor.py's _coordinator_updated before binary_sensor.py's.
CoordinatorUpdate(d) ==
    /\ cdata' = PublishedData("returned", d, cdata)
    /\ response' = d
    /\ updateOutcome' = "returned"
    /\ repeated' = (d = cdata)
    /\ IF loaded
       THEN /\ sensor_created' = sensor_created \cup NewTankIds(cdata', sensor_created)
            /\ binary_created' = binary_created \cup NewTankIds(cdata', binary_created)
            /\ added' = UNION { build_entities_for_tank("sensor", id) :
                                  id \in NewTankIds(cdata', sensor_created) }
                        \cup UNION { build_entities_for_tank("binary_sensor", id) :
                                       id \in NewTankIds(cdata', binary_created) }
            /\ entities' = entities \cup added'
            /\ built' = Built(Built(built, "sensor",
                                    BuildLoop(_tanks_from(cdata'), sensor_created)),
                              "binary_sensor", BuildLoop(_tanks_from(cdata'), binary_created))
       ELSE /\ added' = {}
            /\ UNCHANGED <<sensor_created, binary_created, entities, built>>
    /\ UNCHANGED <<loaded, reading, coordVars, hassVars, flowVars, lifeVars>>

\* A refresh raises: the snapshot stays.
CoordinatorUpdateFails ==
    /\ updateOutcome # "none"
    /\ cdata' = PublishedData("UpdateFailed", NoSnapshot, cdata)
    /\ updateOutcome' = "UpdateFailed"
    /\ repeated' = FALSE
    /\ added' = {}
    /\ UNCHANGED <<response, loaded, sensor_created, binary_created, entities, reading, built,
                   coordVars, hassVars, flowVars, lifeVars>>

\* Home Assistant reads a property of an entity.
ReadEntity(ent, prop) ==
    /\ ent \in entities
    /\ prop \in Properties(ent)
    /\ reading' = [ent |-> ent, prop |-> prop, value |-> ReadProperty(ent, prop, cdata)]
    /\ UNCHANGED <<cdata, response, updateOutcome, repeated, loaded, sensor_created,
                   binary_created, entities, added, built, coordVars, hassVars, flowVars, lifeVars>>

\* Every entity the platforms can create for the tank ids of the inputs.
AllEntities ==
    {AccountEntity}
    \cup UNION { build_entities_for_tank(pf, id) :
                   pf \in {"sensor", "binary_sensor"}, id \in {"1", "2", "unknown"} }

AllProperties == {"native_value", "icon", "is_on"}

\* The entities read in the platforms' specification.
PlatformReads ==
    { ent \in AllEntities :
        ent.cls \in {"PercentFullSensor", "TankIdSensor", "AccountSensor", "LowOilSensor"} }

PlatformNext ==
    \/ PlatformSetup
    \/ \E d \in PlatformResponses : CoordinatorUpdate(d)
    \/ CoordinatorUpdateFails
    \/ \E ent \in PlatformReads : \E prop \in AllProperties : ReadEntity(ent, prop)

PlatformSpec == Init /\ [][PlatformNext]_vars

\* The tank identity set of a snapshot.
TankIdSet(d) == { CreatedId(_tanks_from(d)[i]) : i \in 1..Len(_tanks_from(d)) }

\* C22: a refresh that returns the body that is already published, with the
\* platforms set up, leaves the tank ids of the snapshot, both
\* created_tank_ids sets and the set of entities as they were, and gives no
\* entity to async_add_entities.  (With the platforms set up and no property
\* read, a step that ends with a returned refresh is a refresh.)
C22_RepeatedRefresh ==
    [][ (loaded /\ loaded' /\ reading' = reading
           /\ updateOutcome' = "returned" /\ response' = cdata)
          => /\ TankIdSet(cdata') = TankIdSet(cdata)
             /\ sensor_created' = sensor_created
             /\ binary_created' = binary_created
             /\ entities' = entities
             /\ added' = {} ]_vars

C22_Witness ==
    /\ loaded /\ repeated /\ updateOutcome = "returned"
    /\ Len(_tanks_from(cdata)) = 2
    /\ sensor_created = {"1", "2"}
    /\ added = {}

\* C23: after a refresh that returned, the snapshot is the body of that
\* refresh; an entity whose tank id the snapshot does not list finds no
\* record and every property of it is None; the account sensor's value is
\* the number of tanks of the snapshot.
C23_WholesaleReplacement ==
    /\ updateOutcome = "returned" => cdata = response
    /\ \A ent \in entities \ {AccountEntity} :
           ent.tank_id \notin TankIdSet(cdata)
               => /\ TankIndex(cdata, ent.tank_id) = 0
                  /\ native_value(ent, cdata) = Unknown
    /\ AccountEntity \in entities
           => native_value(AccountEntity, cdata) = Num(100 * Len(_tanks_from(cdata)))
    /\ (reading.prop # "none" /\ reading.ent.cls = "AccountSensor" /\ updateOutcome = "returned")
           => reading.value.num <= 100 * MaxTanks

C23_Witness ==
    /\ updateOutcome = "returned" /\ loaded
    /\ Entity("sensor", "PercentFullSensor", "1") \in entities
    /\ TankIdSet(cdata) = {"2"}
    /\ reading.ent = Entity("sensor", "PercentFullSensor", "1")
    /\ reading.prop = "native_value" /\ reading.value = Unknown

----------------------------------------------------------------------------
\* The entities of one tank, over every tank record of EntityTanks: the
\* first refresh returns the record, the platforms are set up, and later
\* the upstream stops listing the tank.

EmptyResponse == Snapshot("dict", TRUE, <<>>)

\* The first refresh returns body d.
FirstUpdate(d) ==
    /\ cdata = NoSnapshot
    /\ CoordinatorUpdate(d)

\* A later refresh returns an empty tanks list.
TanksVanish ==
    /\ cdata \notin {NoSnapshot, EmptyResponse}
    /\ CoordinatorUpdate(EmptyResponse)

EntityNext ==
    \/ \E d \in EntityResponses : FirstUpdate(d)
    \/ PlatformSetup
    \/ TanksVanish
    \/ \E ent \in AllEntities : \E prop \in AllProperties : ReadEntity(ent, prop)

EntitySpec == Init /\ [][EntityNext]_vars

\* C25: no property read of an entity raises, whatever fields the tank
\* record has.
C25_NeverRaises == reading.value.kind # "raise"

\* A field value that is a number or a numeric string, and its value in
\* hundredths.
IsNumeric(x) == x.kind = "num" \/ (x.kind = "str" /\ x.text \in DOMAIN FloatStrings)

NumericValue(x) == IF x.kind = "num" THEN x.num ELSE FloatStrings[x.text]

\* The records of the snapshot whose tank_id is the entity's.
RecordsOf(ent) ==
    { i \in 1..Len(_tanks_from(cdata)) :
        /\ _tanks_from(cdata)[i]["tank_id"].kind # "missing"
        /\ PyStr(_tanks_from(cdata)[i]["tank_id"]) = ent.tank_id }

TheRecordOf(ent) == _tanks_from(cdata)[CHOOSE i \in RecordsOf(ent) : TRUE]

LowOilEntities == { ent \in entities : ent.cls = "LowOilSensor" }

\* C26: the low-oil sensor is None when no record has its tank id or one of
\* sensor_gallons, nominal, low_level is missing or not numeric; otherwise
\* it is on exactly when gallons <= nominal * low_level (150.5, 300 and 0.25
\* give off).
C26_LowOil ==
    \A ent \in LowOilEntities :
        LET t == TheRecordOf(ent)
            v == native_value(ent, cdata)
        IN  IF RecordsOf(ent) = {} THEN v = Unknown
            ELSE IF \E f \in {"sensor_gallons", "nominal", "low_level"} : ~IsNumeric(t[f])
                 THEN v = Unknown
            ELSE /\ v = Bool(NumericValue(t["sensor_gallons"]) * 100
                               <= NumericValue(t["nominal"]) * NumericValue(t["low_level"]))
                 /\ (NumericValue(t["sensor_gallons"]) = 15050
                       /\ NumericValue(t["nominal"]) = 30000
                       /\ NumericValue(t["low_level"]) = 25) => v = Bool(FALSE)

C26_Witness ==
    /\ reading.ent = Entity("binary_sensor", "LowOilSensor", "1")
    /\ reading.prop = "is_on" /\ reading.value = Bool(FALSE)
    /\ RecordsOf(reading.ent) # {}
    /\ TheRecordOf(reading.ent)["sensor_gallons"] = Str("150.5")
    /\ TheRecordOf(reading.ent)["nominal"] = Str("300")
    /\ TheRecordOf(reading.ent)["low_level"] = Str("0.25")

PercentFullEntities == { ent \in entities : ent.cls = "PercentFullSensor" }

\* C27: the percent-full sensor is None exactly when no record has its tank
\* id; it is 0.0 when nominal is missing, not numeric or not positive;
\* otherwise it is the hundredth nearest to gallons / nominal * 100, with a
\* missing or non-numeric sensor_gallons counted as 0 (150.5 and 300 give
\* 50.17).
C27_PercentFull ==
    \A ent \in PercentFullEntities :
        LET t == TheRecordOf(ent)
            v == native_value(ent, cdata)
            c == NumericValue(t["nominal"])
            g == IF IsNumeric(t["sensor_gallons"]) THEN NumericValue(t["sensor_gallons"]) ELSE 0
        IN  IF RecordsOf(ent) = {} THEN v = Unknown
            ELSE IF ~IsNumeric(t["nominal"]) \/ c <= 0 THEN v = Num(0)
            ELSE /\ v.kind = "num"
                 /\ 2 * (v.num * c - g * 10000) <= c
                 /\ 2 * (g * 10000 - v.num * c) <= c
                 /\ (g = 15050 /\ c = 30000) => v = Num(5017)

C27_Witness ==
    /\ reading.ent = Entity("sensor", "PercentFullSensor", "1")
    /\ reading.prop = "native_value" /\ reading.value = Num(5017)
    /\ RecordsOf(reading.ent) # {}
    /\ TheRecordOf(reading.ent)["sensor_gallons"] = Str("150.5")
    /\ TheRecordOf(reading.ent)["nominal"] = Str("300")

----------------------------------------------------------------------------
\* The config flow's user step (config_flow.py).

\* ErrorCode with ApiError taken for an unexpected exception.
ErrorCode_ApiAsUnknown(res) ==
    CASE res = "AuthError" -> "auth"
      [] OTHER -> "unknown"

\* The except clauses of _async_validate_input.
ErrorCode(res) ==
    CASE res = "AuthError" -> "auth"
      [] res = "ApiError" -> "cannot_connect"
      [] OTHER -> "unknown"

\* _async_validate_input on a client with a session of its own: login(),
\* then get_tanks_list(); the error code ("none" for None), the calls made
\* and what they gave.
_async_validate_input(tget, tpost, tajax) ==
    LET l == login(tget, tpost)
        f == get_tanks_list(tajax)
    IN  IF l.res # "ok"
        THEN [error |-> ErrorCode(l.res), calls |-> <<"login">>, results |-> <<Log(l)>>]
        ELSE [error |-> IF f.res = "ok" THEN "none" ELSE ErrorCode(f.res),
              calls |-> <<"login", "get_tanks_list">>,
              results |-> <<Log(l), Log(f)>>]

\* AlreadyConfigured that never finds an entry.
AlreadyConfigured_Never(username) == FALSE

\* async_set_unique_id(username) and _abort_if_unique_id_configured(): there
\* is a config entry with this unique id.
AlreadyConfigured(username) == configured[username] > 0

DEFAULT_SCAN_INTERVAL == 3600

\* The scan intervals a submission can carry; NoScanInterval: the key is
\* not in user_input.
NoScanInterval == 0

ScanIntervals == {NoScanInterval, 600}

\* user_input.get(CONF_SCAN_INTERVAL, DEFAULT_SCAN_INTERVAL)
ScanIntervalOf(scan) == IF scan = NoScanInterval THEN DEFAULT_SCAN_INTERVAL ELSE scan

\* What a step returns: a form with its errors and defaults, the data of
\* the entry to create, or an abort.
FlowResult(type, errors, username, scan_interval) ==
    [type |-> type, errors |-> errors, username |-> username, scan_interval |-> scan_interval]

\* async_step_user(None): the empty form.
StepUserShow ==
    /\ flowResult' = FlowResult("form", {}, "", DEFAULT_SCAN_INTERVAL)
    /\ flowCalls' = <<>>
    /\ flowResults' = <<>>
    /\ UNCHANGED <<configured, coordVars, hassVars, platVars, lifeVars>>

\* async_step_user(user_input): validate, then create the entry, abort, or
\* show the form again with the error.
StepUserSubmit(username, scan, tget, tpost, tajax) ==
    LET v == _async_validate_input(tget, tpost, tajax)
    IN  /\ flowCalls' = v.calls
        /\ flowResults' = v.results
        /\ IF v.error = "none"
           THEN IF AlreadyConfigured(username)
                THEN /\ flowResult' = FlowResult("abort", {}, username, 0)
                     /\ UNCHANGED configured
                ELSE /\ flowResult' = FlowResult("create_entry", {}, username, ScanIntervalOf(scan))
                     /\ configured' = [configured EXCEPT ![username] = @ + 1]
           ELSE /\ flowResult' = FlowResult("form", {<<"base", v.error>>}, username,
                                             ScanIntervalOf(scan))
                /\ UNCHANGED configured
        /\ UNCHANGED <<coordVars, hassVars, platVars, lifeVars>>

\* The user removes the config entry of an account.
RemoveEntry(username) ==
    /\ configured[username] > 0
    /\ configured' = [configured EXCEPT ![username] = @ - 1]
    /\ UNCHANGED <<flowResult, flowCalls, flowResults, coordVars, hassVars, platVars, lifeVars>>

\* The exchanges of the flow's specification.
FlowLoginPages ==
    { t \in LoginPageResponses : t.sendExc \in {"none", "timeout"} /\ t.readExc = "none"
                                   /\ t.markers # {} }

FlowLoginPosts ==
    { t \in LoginPostResponses : /\ t.sendExc \in {"none", "client_error", "other"}
                                 /\ t.readExc \in {"none", "timeout"}
                                 /\ t.status \in {0, 200, 403, 500}
                                 /\ t.markers \in {{}, {"user_pass"}} }

FlowAjax ==
    { t \in AjaxResponses : /\ t.sendExc \in {"none", "timeout", "client_error"}
                            /\ t.readExc \in {"none", "other"}
                            /\ t.status \in {0, 200, 401, 500}
                            /\ t.markers = {}
                            /\ t.json \in {None, AccountData("alice"),
                                           JsonValue("dict", {"result"}, 0, "error", <<>>)} }

FlowNext ==
    \/ StepUserShow
    \/ \E u \in Accounts : \E scan \in ScanIntervals : \E tget \in FlowLoginPages :
         \E tpost \in FlowLoginPosts : \E tajax \in FlowAjax :
           StepUserSubmit(u, scan, tget, tpost, tajax)
    \/ \E u \in Accounts : RemoveEntry(u)

FlowSpec == Init /\ [][FlowNext]_vars

\* The error code the claim gives an exception class.
C28_Code(res) ==
    IF res = "AuthError" THEN "auth"
    ELSE IF res = "ApiError" THEN "cannot_connect"
    ELSE "unknown"

\* What holds after a user step that was submitted.
C28_AfterStep ==
    flowCalls # <<>> =>
        LET last == flowResults[Len(flowResults)]
        IN  /\ flowCalls \in {<<"login">>, <<"login", "get_tanks_list">>}
            /\ flowResults[1].res # "ok" => flowCalls = <<"login">>
            /\ flowResult.type = "create_entry"
                  => (Len(flowCalls) = 2 /\ \A i \in 1..2 : flowResults[i].res = "ok")
            /\ last.res # "ok"
                  => /\ flowResult.type = "form"
                     /\ flowResult.errors = {<<"base", C28_Code(last.res)>>}

\* C28: a user step creates an entry only after login() and get_tanks_list()
\* both returned; when one of them raised, no entry is created and the form
\* comes back with the one error code of that exception (auth,
\* cannot_connect, unknown); get_tanks_list() is not called after a login()
\* that raised.
C28_ValidateThenCreate ==
    [][ /\ C28_AfterStep'
        /\ flowResult'.type # "create_entry"
              => \A u \in Accounts : configured'[u] <= configured[u] ]_vars

C28_Witness ==
    /\ flowResult.type = "form"
    /\ flowResult.errors = {<<"base", "cannot_connect">>}
    /\ flowCalls = <<"login", "get_tanks_list">>
    /\ flowResults[2] = [res |-> "ApiError", cause |-> "timeout"]

\* C29: no two config entries have the same username.
C29_OneEntryPerUsername == \A u \in Accounts : configured[u] <= 1

C29_Witness ==
    /\ flowResult.type = "abort"
    /\ configured[flowResult.username] = 1

----------------------------------------------------------------------------
\* Progress of the entries' coordinators: every refresh tick that is due
\* comes, and every client call that was started comes back (each request
\* has a timeout).
LiveSpec ==
    /\ HassSpec
    /\ \A e \in Entries :
         /\ WF_vars(EntryRefresh(e))
         /\ WF_vars(\E t \in AjaxResponses : EntryFirstFetch(e, t))
         /\ WF_vars(\E t \in LoginPostResponses : EntryLogin(e, t))
         /\ WF_vars(\E t \in AjaxResponses : EntryRetryFetch(e, t))

\* The coordinator of e exists and is between refreshes (Ready, whatever
\* the state of its session), or is about to make its first request
\* (NoData).
C30_Waiting(e) ==
    \/ setupState[e] = "loaded" /\ hpc[e] = "idle"
    \/ setupState[e] = "setting_up" /\ hpc[e] = "fetch1"

\* C30: once the upstream answers every request (401 without valid cookies,
\* the login accepted, the tanks with valid cookies), a coordinator that is
\* Ready or has no data yet eventually publishes a snapshot fetched since
\* then and is Ready, unless its entry is unloaded first.
C30_EventuallyFresh ==
    \A e \in Entries :
        (healthy /\ C30_Waiting(e))
            ~> \/ /\ fresh[e] /\ hdata[e] = AccountData(jar[SessionOf(e)])
                  /\ setupState[e] = "loaded" /\ hpc[e] = "idle"
               \/ setupState[e] = "not_loaded"

C30_Witness ==
    /\ healthy
    /\ \A e \in Entries : fresh[e] /\ setupState[e] = "loaded" /\ hpc[e] = "idle"
    /\ jar[SessionOf("e1")] # "anon"

----------------------------------------------------------------------------
\* The requests of the client's calls.

IsLoginGet(q) == q.method = "GET" /\ q.url = "LOGIN_URL"

IsLoginPost(q) == q.method = "POST" /\ q.url = "LOGIN_URL"

IsAjax(q) == q.method = "POST" /\ q.url = "AJAX_URL"

\* The GET of the login page ended with a timeout or a transport error.
GetFailed(t) ==
    \/ t.sendExc \in {"timeout", "client_error"}
    \/ t.sendExc = "none" /\ t.readExc \in {"timeout", "client_error"}

\* The GET of the login page gave the page.
GetSucceeded(t) == t.sendExc = "none" /\ t.readExc = "none"

\* The form the claim expects after the page t.
C31_Form(t) ==
    IF t.nonce = NoNonce
    THEN {<<"username", CoordUsername>>, <<"user_pass", CoordPassword>>}
    ELSE {<<"username", CoordUsername>>, <<"user_pass", CoordPassword>>,
          <<"ccf_nonce", t.nonce>>}

C31_Step ==
    /\ pc' = "login_get" => requests' = << Request("GET", "LOGIN_URL", {}) >>
    /\ pc' = "login_post" =>
          /\ Len(requests') = 2
          /\ IsLoginGet(requests'[1])
          /\ IsLoginPost(requests'[2])
    /\ (pc = "login_get" /\ pc' # "login_get") =>
          /\ inflight # NoResp
          /\ GetFailed(inflight) =>
                /\ rl'.res = "ApiError"
                /\ pc' # "login_post"
                /\ \A i \in DOMAIN requests' : ~IsLoginPost(requests'[i])
          /\ GetSucceeded(inflight) =>
                /\ pc' = "login_post"
                /\ requests'[2].form = C31_Form(inflight)

\* C31: in login() the POST is sent only after the GET of the login page
\* has come back; when the GET fails with a timeout or a transport error,
\* login() raises ApiError and sends no POST; when the page has no nonce
\* field, the POST carries exactly the username and the password; when it
\* has one, the POST carries, besides them, the nonce of that page.
C31_GetThenPost == [][C31_Step]_vars

\* login() has posted the nonce it scraped.
C31_Witness ==
    /\ pc = "login_post"
    /\ \E n \in Nonces : requests[2].form = LoginForm(CoordUsername, CoordPassword, n)

Count(P(_)) == Cardinality({i \in DOMAIN requests : P(requests[i])})

\* The current client call, or the last one, is a get_tanks_list().
LastCallIsFetch ==
    \/ pc \in {"fetch1", "fetch2"}
    \/ pc = "idle" /\ outcome # "none" /\ (rl = NotCalled \/ r2 # NotCalled)

\* The current client call, or the last one, is a login().
LastCallIsLogin ==
    \/ pc \in {"login_get", "login_post"}
    \/ pc = "idle" /\ rl # NotCalled /\ r2 = NotCalled

\* C32: a call of get_tanks_list() sends exactly one request, to the data
\* endpoint; a call of login() sends at most one GET and at most one POST,
\* both to the login endpoint; whatever the call is given back.
C32_NoClientRetry ==
    /\ LastCallIsFetch => (Len(requests) = 1 /\ IsAjax(requests[1]))
    /\ LastCallIsLogin =>
          /\ Count(IsLoginGet) <= 1
          /\ Count(IsLoginPost) <= 1
          /\ Count(IsAjax) = 0

\* A retried get_tanks_list() that timed out: one request, no second try.
C32_Witness ==
    /\ pc = "idle"
    /\ r2.cause = "timeout"
    /\ Len(requests) = 1 /\ IsAjax(requests[1])

----------------------------------------------------------------------------
\* One config entry from its creation on: async_setup_entry,
\* async_unload_entry, async_reload_entry and the options flow, at the
\* grain of whole handlers.  The first refresh is given by how it ended.

MaxSetups == 3

Passwords == {"secret", "changed"}

\* The scan intervals a user can type into the forms.
ScanInputs == {-60, 0, 60}

\* The forms' schema for the scan interval: any int.
SchemaAccepts(v) == v \in Int

\* scan_interval_of with the entry's data looked at before its options.
scan_interval_of_DataFirst(options, d) ==
    IF d.scan_interval # Absent THEN Value(d.scan_interval)
    ELSE IF options # Absent THEN Value(options)
    ELSE DEFAULT_SCAN_INTERVAL

\* entry.options.get(CONF_SCAN_INTERVAL,
\*                   entry.data.get(CONF_SCAN_INTERVAL, DEFAULT_SCAN_INTERVAL))
scan_interval_of(options, d) ==
    IF options # Absent THEN Value(options)
    ELSE IF d.scan_interval # Absent THEN Value(d.scan_interval)
    ELSE DEFAULT_SCAN_INTERVAL

\* LoginCredentials read from the entry at the time of the call.
LoginCredentials_FromEntry(c, d) == <<d.username, d.password>>

\* The arguments of the coordinator's login() call: self._username and
\* self._password.
LoginCredentials(c, d) == <<c.username, c.password>>

FirstRefreshOutcomes == {"returned", "ConfigEntryAuthFailed", "UpdateFailed"}

\* The config flow creates the entry with the submitted data, or Home
\* Assistant restores an entry whose data has no scan interval.
EntryCreated(password, scan) ==
    /\ entryState = "no_entry"
    /\ \A v \in scan : SchemaAccepts(v)
    /\ entryState' = "not_loaded"
    /\ entryData' = [username |-> CoordUsername, password |-> password, scan_interval |-> scan]
    /\ UNCHANGED <<entryOptions, coordinator, listener, pendingReload, loginWith, nCreated,
                   unloadReturn>>
    /\ UNCHANGED <<coordVars, hassVars, platVars, flowVars>>

\* The body of async_setup_entry, with `registered` in hass.data[DOMAIN]
\* when it starts: a coordinator from the entry's data and options and its
\* first refresh (with a login() when relogin); when that returned, the
\* coordinator is registered and the platforms are forwarded; when that
\* returned too, the update listener is added and the setup returns True.
\* An exception of the first refresh or of the forwarding leaves the setup.
SetupBody(registered, first, relogin, forward_ok) ==
    LET c == Coordinator(nCreated + 1, entryData.username, entryData.password,
                         scan_interval_of(entryOptions, entryData),
                         [data |-> entryData, options |-> entryOptions])
    IN  /\ nCreated' = nCreated + 1
        /\ loginWith' = IF relogin
                        THEN {[credentials |-> LoginCredentials(c, entryData), by |-> c]}
                        ELSE loginWith
        /\ IF first = "returned"
           THEN /\ coordinator' = c
                /\ entryState' = IF forward_ok THEN "loaded" ELSE "setup_failed"
                /\ listener' = forward_ok
           ELSE /\ coordinator' = registered
                /\ entryState' = "setup_failed"
                /\ listener' = FALSE

\* Home Assistant sets the entry up, the first time or after a failure.
EntrySetup(first, relogin, forward_ok) ==
    /\ entryState \in {"not_loaded", "setup_failed"}
    /\ nCreated < MaxSetups
    /\ first = "ConfigEntryAuthFailed" => relogin
    /\ first # "returned" => forward_ok
    /\ SetupBody(coordinator, first, relogin, forward_ok)
    /\ UNCHANGED <<entryData, entryOptions, pendingReload, unloadReturn>>
    /\ UNCHANGED <<coordVars, hassVars, platVars, flowVars>>

\* A later refresh of the registered coordinator that logs in again.
CoordinatorLogin ==
    /\ entryState = "loaded"
    /\ loginWith' = {[credentials |-> LoginCredentials(coordinator, entryData),
                      by |-> coordinator]}
    /\ UNCHANGED <<entryState, entryData, entryOptions, coordinator, listener, pendingReload,
                   nCreated, unloadReturn>>
    /\ UNCHANGED <<coordVars, hassVars, platVars, flowVars>>

\* async_unload_entry when the user disables the entry.
EntryUnload(unload_ok) ==
    /\ entryState = "loaded"
    /\ ~pendingReload
    /\ unloadReturn' = unload_ok
    /\ IF unload_ok
       THEN /\ coordinator' = NoCoordinator
            /\ entryState' = "not_loaded"
            /\ listener' = FALSE
       ELSE UNCHANGED <<coordinator, entryState, listener>>
    /\ UNCHANGED <<entryData, entryOptions, pendingReload, loginWith, nCreated>>
    /\ UNCHANGED <<coordVars, hassVars, platVars, flowVars>>

\* The options flow saves the submitted scan interval as the entry's
\* options; a registered update listener is called when they changed.
OptionsFlowSave(v) ==
    /\ entryState # "no_entry"
    /\ SchemaAccepts(v)
    /\ entryOptions' = {v}
    /\ pendingReload' = (pendingReload \/ (listener /\ entryOptions # {v}))
    /\ UNCHANGED <<entryState, entryData, coordinator, listener, loginWith, nCreated,
                   unloadReturn>>
    /\ UNCHANGED <<coordVars, hassVars, platVars, flowVars>>

\* A reauthentication outside this integration replaces the password in
\* the entry's data; a registered update listener is called.
EntryDataUpdated(password) ==
    /\ entryState # "no_entry"
    /\ password # entryData.password
    /\ entryData' = [entryData EXCEPT !.password = password]
    /\ pendingReload' = (pendingReload \/ listener)
    /\ UNCHANGED <<entryState, entryOptions, coordinator, listener, loginWith, nCreated,
                   unloadReturn>>
    /\ UNCHANGED <<coordVars, hassVars, platVars, flowVars>>

\* async_reload_entry: async_unload_entry and, when it returned True,
\* async_setup_entry.
EntryReload(unload_ok, first, relogin, forward_ok) ==
    /\ pendingReload
    /\ entryState = "loaded"
    /\ nCreated < MaxSetups
    /\ first = "ConfigEntryAuthFailed" => relogin
    /\ first # "returned" => forward_ok
    /\ pendingReload' = FALSE
    /\ unloadReturn' = unload_ok
    /\ IF unload_ok
       THEN SetupBody(NoCoordinator, first, relogin, forward_ok)
       ELSE UNCHANGED <<coordinator, entryState, listener, loginWith, nCreated>>
    /\ UNCHANGED <<entryData, entryOptions>>
    /\ UNCHANGED <<coordVars, hassVars, platVars, flowVars>>

LifeNext ==
    \/ \E p \in Passwords : \E scan \in {Absent} \cup {{v} : v \in ScanInputs} :
         EntryCreated(p, scan)
    \/ \E first \in FirstRefreshOutcomes : \E relogin \in BOOLEAN : \E fwd \in BOOLEAN :
         EntrySetup(first, relogin, fwd)
    \/ CoordinatorLogin
    \/ \E ok \in BOOLEAN : EntryUnload(ok)
    \/ \E v \in ScanInputs : OptionsFlowSave(v)
    \/ \E p \in Passwords : EntryDataUpdated(p)
    \/ \E ok \in BOOLEAN : \E first \in FirstRefreshOutcomes : \E relogin \in BOOLEAN :
         \E fwd \in BOOLEAN : EntryReload(ok, first, relogin, fwd)

LifeSpec == Init /\ [][LifeNext]_vars

\* C33: every login() call of a coordinator is made with the username and
\* the password the entry's data held when that coordinator was made, and
\* the coordinator's stored credentials stay those, whatever happens to the
\* entry afterwards.
C33_StoredCredentials ==
    /\ \A l \in loginWith :
          l.credentials = <<l.by.made_from.data.username, l.by.made_from.data.password>>
    /\ coordinator # NoCoordinator =>
          /\ coordinator.username = coordinator.made_from.data.username
          /\ coordinator.password = coordinator.made_from.data.password

\* The entry's password has been replaced and the coordinator made before
\* that has logged in with the password it was made with.
C33_Witness ==
    /\ entryState = "loaded"
    /\ pendingReload
    /\ \E l \in loginWith :
          /\ l.by = coordinator
          /\ l.credentials = <<entryData.username, coordinator.made_from.data.password>>
          /\ entryData.password # coordinator.made_from.data.password

\* The interval the claim gives an entry with these options and data.
C36_Expected(options, d) ==
    CASE options # {} -> Value(options)
      [] options = {} /\ d.scan_interval # {} -> Value(d.scan_interval)
      [] OTHER -> 3600

\* A step that carries out a reload whose unload returned True.
C36_Reloaded == pendingReload /\ ~pendingReload' /\ unloadReturn'

C36_Step ==
    /\ coordinator' # NoCoordinator =>
          coordinator'.update_interval =
              C36_Expected(coordinator'.made_from.options, coordinator'.made_from.data)
    /\ C36_Reloaded =>
          \/ coordinator' = NoCoordinator
          \/ /\ coordinator'.id # coordinator.id
             /\ coordinator'.update_interval = C36_Expected(entryOptions, entryData)

C37_PositiveInterval ==
    coordinator # NoCoordinator => coordinator.update_interval > 0

----------------------------------------------------------------------------
\* The platforms' bookkeeping over any sequence of snapshots.

C34_Step ==
    /\ sensor_created \subseteq sensor_created'
    /\ binary_created \subseteq binary_created'
    /\ loaded' =>
          /\ TankIdSet(cdata') \subseteq sensor_created'
          /\ TankIdSet(cdata') \subseteq binary_created'
    /\ \A k \in Platforms \X PlatformIds : built'[k] <= 1

\* C34: for both platforms and every sequence of snapshots, with tanks that
\* go and come back and snapshots that list a tank id twice,
\* created_tank_ids only grows, holds after every update the stringified
\* tank id of each tank of the snapshot, and build_entities_for_tank is
\* called at most once for a tank id.
C34_CreatedOnce == [][C34_Step]_vars

\* A snapshot that lists tank id 1 twice, after one that did not list it
\* and with its entities built once.
C34_Witness ==
    /\ loaded
    /\ Len(_tanks_from(cdata)) = 2
    /\ \A i \in 1..2 : CreatedId(_tanks_from(cdata)[i]) = "1"
    /\ sensor_created = {"1", "2"}
    /\ built[<<"sensor", "1">>] = 1
    /\ built[<<"binary_sensor", "1">>] = 1

\* C35: every per-tank entity finds, through _tank(), a record of the tank
\* id it was created for as long as the snapshot lists one; the record
\* without a tank_id field, whose entities are created under "unknown",
\* included.
C35_ResolvesOwnRecord ==
    \A ent \in entities \ {AccountEntity} :
        \A i \in 1..Len(_tanks_from(cdata)) :
            CreatedId(_tanks_from(cdata)[i]) = ent.tank_id
                => /\ TankIndex(cdata, ent.tank_id) # 0
                   /\ CreatedId(_tanks_from(cdata)[TankIndex(cdata, ent.tank_id)]) = ent.tank_id

\* C38: hass.data[DOMAIN] holds a coordinator for the entry exactly while
\* the entry is set up: none before a setup, none after a setup that did
\* not return True, none after an unload that returned True, one while the
\* entry is loaded (an unload that returned False included).
C38_RegisteredWhileSetUp ==
    /\ entryState \in {"no_entry", "not_loaded", "setup_failed"} => coordinator = NoCoordinator
    /\ entryState = "loaded" => coordinator # NoCoordinator

====
